---------------------------- MODULE Spec2Model ----------------------------
(***************************************************************************)
(* A model of the path-tracing renderer of malhas-computacionais:          *)
(*   - the BVH builder and the scene traversal  (render/PathTracer.h),     *)
(*   - the radiance estimator's bounce loop      (render/PathTracer.h),    *)
(*   - the progressive frame driver              (src/main.cpp).           *)
(*                                                                         *)
(* Geometry is exact: coordinates are integers in units of 0.1 (a scene    *)
(* coordinate c is held as 10*c), ray directions are unit vectors dn/dd    *)
(* with integer dn and dd, and a distance is the number hi*1e8 + n/d, so   *)
(* that the 1e8 which Ray() substitutes for 1/0 is computed with, not      *)
(* rounded away.                                                           *)
(***************************************************************************)
EXTENDS Integers, Sequences, FiniteSets, Bags, TLC

(***************************************************************************)
(* Bounds of the model.                                                    *)
(***************************************************************************)
\* The most triangles of a scene whose BVH is built (SpecBuild).
MaxTris == 4
\* The most triangles of a scene that rays are traced against (SpecBVH).
MaxRayTris == 3
\* The sample counter up to which frames are rendered (SpecFrame).
MaxSamples == 6
\* The most camera inputs of a run (SpecFrame).
MaxMoves == 2
\* The most faces of the editor's mesh and the most 'p' presses (SpecEditor).
MaxMeshFaces == 2
MaxToggles == 3
\* The largest width and height of a texture (SpecTexture).
MaxTexSide == 3
\* The most vertices of the mesh file of the render-to-file mode (SpecOffline).
MaxFileVerts == 3
\* The largest radiance value converted, in tenths (SpecToneMap).
MaxToneTenths == 150
\* The most triangles of halving size in a scene of SpecDeep.
MaxDeepTris == 65

(***************************************************************************)
(* Program constants.                                                      *)
(***************************************************************************)
\* AABB(): inf = 1e20, the empty box is (inf, -inf); held as a number
\* larger than every coordinate of the model.
AABBInf == 1000000
\* getIntersection: t = 1e20, held as 2e9 * 1e8, larger than every distance
\* the model computes.
TInitHi == 2000000000
\* getIntersection: the ground plane y = -1.2, in units of 0.1.
GroundY == -12
\* getIntersection: the light's centre (0, 0.6, 0), in units of 0.1.
LightY == 6
\* getIntersection: det = b*b - op.op + 0.01; 0.01 is 1 in units of 0.1^2.
LightR2 == 1
\* getIntersection: const BVHNode* stack[64].
StackCap == 64
\* radiance: for (int depth = 0; depth < 5; ++depth).
MaxDepth == 5
\* radiance: if (depth > 2) the roulette is played.
RouletteDepth == 2
\* updatePathTracingFrame: int step = (g_ptSamples < 4) ? 6 : 1.
CoarseSamples == 4
CoarseStep == 6
\* main.cpp: float g_zoom = 1.0f, in steps of zoomStep = 0.05f.
InitialZoom == 20

VARIABLES
    faces,        \* SceneData::faces: 0..n-1 -> <<i0, i1, i2>> (vertex indices)
    triIndices,   \* SceneData::triIndices: 0..n-1 -> triangle index (<< >> before buildBVH)
    nodes,        \* the allocated BVHNodes, an arena: node k is nodes[k]
    bvhRoot,      \* SceneData::bvhRoot: an index of nodes, 0 = nullptr
    bpc,          \* "scene" (constructed, BVH not built) | "built"
    isect,        \* the last getIntersection call: its ray and results
    rad,          \* one call of radiance: position, depth, colours, counters
    g_renderMesh, \* TRUE when the global scene pointer is non-null
    cam,          \* <<g_rotation_x, g_rotation_y, g_zoom, g_offset_x, g_offset_y>>, in input steps
    last_cam,     \* the statics last_rot_x, last_rot_y, last_zoom, last_off_x, last_off_y
    g_ptSamples,  \* the sample counter
    g_winWidth, g_winHeight,
    g_accumBuffer,\* pixel index -> the bag of radiance estimates summed in the slot
    g_pixelBuffer,\* pixel index -> the colour written (the three bytes of the pixel)
    fpc,          \* "idle" | "rows" (inside the parallel loop) | "shown" (frame uploaded)
    frame,        \* the locals of updatePathTracingFrame, and what it started from
    moves,        \* camera inputs so far
    g_pathTracingMode, \* the render-mode flag the 'p' key toggles
    mesh,         \* the editor's faces: a sequence of vertex-index tuples
    meshVertices, \* the editor's vertex array
    sceneVertices,\* scene.vertices
    freed,        \* the BVH nodes delete has been called on
    toggles,      \* 'p' presses so far
    call          \* one call of a function of the renderer: arguments, reads, result

bvhVars == <<faces, triIndices, nodes, bvhRoot, bpc, isect>>
radVars == <<rad>>
frameVars == <<g_renderMesh, cam, last_cam, g_ptSamples, g_winWidth, g_winHeight,
               g_accumBuffer, g_pixelBuffer, fpc, frame, moves>>
editorVars == <<g_pathTracingMode, mesh, meshVertices, sceneVertices, freed, toggles>>
callVars == <<call>>

(***************************************************************************)
(* Vec3                                                                    *)
(***************************************************************************)
VAdd(a, b) == <<a[1] + b[1], a[2] + b[2], a[3] + b[3]>>
VSub(a, b) == <<a[1] - b[1], a[2] - b[2], a[3] - b[3]>>
Dot(a, b) == a[1] * b[1] + a[2] * b[2] + a[3] * b[3]
Cross(a, b) == <<a[2] * b[3] - a[3] * b[2], a[3] * b[1] - a[1] * b[3], a[1] * b[2] - a[2] * b[1]>>
IMin(a, b) == IF a < b THEN a ELSE b
IMax(a, b) == IF a > b THEN a ELSE b
IAbs(a) == IF a < 0 THEN -a ELSE a

(***************************************************************************)
(* Distances: the number hi*1e8 + n/d, d > 0, |n/d| < 1e8.                 *)
(***************************************************************************)
QInt(k) == [hi |-> 0, n |-> k, d |-> 1]
QFrac(num, den) == IF den < 0 THEN [hi |-> 0, n |-> -num, d |-> -den] ELSE [hi |-> 0, n |-> num, d |-> den]
QBig(k) == [hi |-> k, n |-> 0, d |-> 1]
QLess(a, b) == IF a.hi # b.hi THEN a.hi < b.hi ELSE a.n * b.d < b.n * a.d
QLeq(a, b) == ~QLess(b, a)
QEq(a, b) == a.hi = b.hi /\ a.n * b.d = b.n * a.d
QMin(a, b) == IF QLess(b, a) THEN b ELSE a
QMax(a, b) == IF QLess(a, b) THEN b ELSE a
QPos(a) == QLess(QInt(0), a)
QZero == QInt(0)

(***************************************************************************)
(* The vertex array of the scene, already centred and scaled by the key    *)
(* handler: the bounding box of the vertices is [-1, 1]^3.                 *)
(***************************************************************************)
Vertices ==
    <<  <<-10, -10, -10>>, <<10, 10, 10>>, <<0, 0, 0>>,
        <<10, 0, 0>>, <<0, 10, 0>>, <<0, 0, 10>>, <<-10, 0, 5>>  >>

\* The faces an editor mesh over these vertices may hold (a duplicate and a
\* collinear triple among them).
FaceCatalogue ==
    {  <<3, 4, 5>>, <<3, 4, 6>>, <<4, 5, 6>>, <<7, 3, 5>>,
       <<1, 4, 6>>, <<3, 3, 4>>, <<1, 3, 2>>  }

Vtx(f, k) == Vertices[f[k]]

(***************************************************************************)
(* AABB                                                                    *)
(***************************************************************************)
EmptyBox == [min |-> <<AABBInf, AABBInf, AABBInf>>, max |-> <<-AABBInf, -AABBInf, -AABBInf>>]

Expand(box, p) ==
    [min |-> <<IMin(box.min[1], p[1]), IMin(box.min[2], p[2]), IMin(box.min[3], p[3])>>,
     max |-> <<IMax(box.max[1], p[1]), IMax(box.max[2], p[2]), IMax(box.max[3], p[3])>>]

\* (mutant) the third vertex of the triangle is left out of the box.
ExpandFaceTwoVertices(box, f) == Expand(Expand(box, Vtx(f, 1)), Vtx(f, 2))

ExpandFace(box, f) == Expand(Expand(Expand(box, Vtx(f, 1)), Vtx(f, 2)), Vtx(f, 3))

\* buildBVHRecursive, step 1: the box of the triangles tri[left..right-1].
RECURSIVE RangeBox(_, _, _, _, _)
RangeBox(fs, tri, i, right, box) ==
    IF i >= right THEN box
    ELSE RangeBox(fs, tri, i + 1, right, ExpandFace(box, fs[tri[i]]))

\* getCentroid(...)[axis] < split, with centroid = (v0+v1+v2) * 0.333333 and
\* split = min[axis] + size[axis] * 0.5, both sides multiplied by 2e6.
CentroidLeftOfSplit(f, axis, box) ==
    LET sum == Vtx(f, 1)[axis] + Vtx(f, 2)[axis] + Vtx(f, 3)[axis]
        size == box.max[axis] - box.min[axis]
    IN  sum * 666666 < (2 * box.min[axis] + size) * 1000000

\* int axis = (size.x > size.y) ? (size.x > size.z ? 0 : 2) : (size.y > size.z ? 1 : 2),
\* as an index 1..3.
SplitAxis(box) ==
    LET size == VSub(box.max, box.min)
    IN  IF size[1] > size[2] THEN (IF size[1] > size[3] THEN 1 ELSE 3)
        ELSE (IF size[2] > size[3] THEN 2 ELSE 3)

\* (mutant) the swap writes one element only and duplicates an index.
SwapLossy(tri, i, j) == [tri EXCEPT ![i] = tri[j]]

Swap(tri, i, j) == [tri EXCEPT ![i] = tri[j], ![j] = tri[i]]

\* buildBVHRecursive, step 3: the partition loop; returns the array and mid.
RECURSIVE PartitionLoop(_, _, _, _, _, _, _)
PartitionLoop(fs, tri, i, right, mid, axis, box) ==
    IF i >= right THEN [tri |-> tri, mid |-> mid]
    ELSE IF CentroidLeftOfSplit(fs[tri[i]], axis, box)
         THEN PartitionLoop(fs, Swap(tri, i, mid), i + 1, right, mid + 1, axis, box)
         ELSE PartitionLoop(fs, tri, i + 1, right, mid, axis, box)

\* if (count <= 2) the node is a leaf.
IsLeafCount(count) == count <= 2

\* (mutant) the fallback cuts one triangle off instead of half the range.
FixMidCutsOne(mid, left, right) ==
    IF mid = left \/ mid = right THEN left + 1 ELSE mid

\* if (mid == left || mid == right) mid = left + count/2.
FixMid(mid, left, right) ==
    IF mid = left \/ mid = right THEN left + ((right - left) \div 2) ELSE mid

NewNode(box) == [box |-> box, left |-> 0, right |-> 0, firstTriIndex |-> -1, triCount |-> 0]

\* buildBVHRecursive(scene, left, right): allocates the node after the nodes
\* of ns, then the left subtree, then the right subtree.  Returns the arena,
\* the reordered index array and the index of the node built.
RECURSIVE BuildBVHRecursive(_, _, _, _, _)
BuildBVHRecursive(fs, ns, tri, left, right) ==
    LET me == Len(ns) + 1
        box == RangeBox(fs, tri, left, right, EmptyBox)
        count == right - left
    IN  IF IsLeafCount(count)
        THEN [nodes |-> Append(ns, [NewNode(box) EXCEPT !.firstTriIndex = left, !.triCount = count]),
              tri |-> tri, root |-> me]
        ELSE LET axis == SplitAxis(box)
                 part == PartitionLoop(fs, tri, left, right, left, axis, box)
                 mid == FixMid(part.mid, left, right)
                 l == BuildBVHRecursive(fs, Append(ns, NewNode(box)), part.tri, left, mid)
                 r == BuildBVHRecursive(fs, l.nodes, l.tri, mid, right)
             IN  [nodes |-> [r.nodes EXCEPT ![me].left = l.root, ![me].right = r.root],
                  tri |-> r.tri, root |-> me]

NumFaces == IF faces = << >> THEN 0 ELSE Cardinality(DOMAIN faces)

(***************************************************************************)
(* buildBVH                                                                *)
(***************************************************************************)
\* (mutant) buildBVH without its guard for the empty scene.
BuildNeverSkips(n) == FALSE

\* if (scene.faces.empty()) return;
BuildSkips(n) == n = 0

\* buildBVH(scene): the index array 0..n-1, then the recursive build.
BuildBVHResult(fs) ==
    LET n == Cardinality(DOMAIN fs)
    IN  IF BuildSkips(n)
        THEN [nodes |-> << >>, tri |-> << >>, root |-> 0]
        ELSE BuildBVHRecursive(fs, << >>, [i \in 0 .. n - 1 |-> i], 0, n)

(***************************************************************************)
(* Rays.  Ray(o, d): d = dn/dd is a unit vector; inv_d[k] is 1/d[k] when   *)
(* |d[k]| > 1e-8 and 1e8 otherwise.                                        *)
(***************************************************************************)
\* (c - o[k]) * inv_d[k]
SlabT(c, o, dn, dd) == IF dn # 0 THEN QFrac((c - o) * dd, dn) ELSE QBig(c - o)

\* AABB::intersect(r, t_max)
AABBIntersect(box, r, tMax) ==
    LET lo(k) == QMin(SlabT(box.min[k], r.o[k], r.dn[k], r.dd), SlabT(box.max[k], r.o[k], r.dn[k], r.dd))
        hi(k) == QMax(SlabT(box.min[k], r.o[k], r.dn[k], r.dd), SlabT(box.max[k], r.o[k], r.dn[k], r.dd))
        tmin == QMax(QMax(lo(1), lo(2)), lo(3))
        tmax == QMin(QMin(hi(1), hi(2)), hi(3))
    IN  QLeq(tmin, tmax) /\ QLess(tmin, tMax) /\ QPos(tmax)

\* A test that leaves out u + v > 1.
IntersectTriangleNoSum(r, v0, v1, v2) ==
    LET e1 == VSub(v1, v0)
        e2 == VSub(v2, v0)
        h == Cross(r.dn, e2)
        A == Dot(e1, h)
        s == VSub(r.o, v0)
        S == Dot(s, h)
        q == Cross(s, e1)
        V == Dot(r.dn, q)
        T == Dot(e2, q)
        t == QFrac(r.dd * T, A)
        none == [t |-> QZero, S |-> 0, V |-> 0, A |-> A]
    IN  IF A = 0 THEN none
        ELSE IF S * A < 0 \/ S * A > A * A THEN none
        ELSE IF V * A < 0 THEN none
        ELSE IF QPos(t) THEN [t |-> t, S |-> S, V |-> V, A |-> A] ELSE none

\* intersectTriangle: a = A/(100 dd), u = S/A, v = V/A, t = dd T/A in units
\* of 0.1.  |a| < 1e-6 is A = 0 and t > 1e-6 is t > 0, for A, T are integers
\* below 1e5.  Returns t (0 when rejected) and the barycentrics' numerators.
IntersectTriangle(r, v0, v1, v2) ==
    LET e1 == VSub(v1, v0)
        e2 == VSub(v2, v0)
        h == Cross(r.dn, e2)
        A == Dot(e1, h)
        s == VSub(r.o, v0)
        S == Dot(s, h)
        q == Cross(s, e1)
        V == Dot(r.dn, q)
        T == Dot(e2, q)
        t == QFrac(r.dd * T, A)
        none == [t |-> QZero, S |-> 0, V |-> 0, A |-> A]
    IN  IF A = 0 THEN none
        ELSE IF S * A < 0 \/ S * A > A * A THEN none
        ELSE IF V * A < 0 \/ (S + V) * A > A * A THEN none
        ELSE IF QPos(t) THEN [t |-> t, S |-> S, V |-> V, A |-> A] ELSE none

TriHit(fs, r, idx) == IntersectTriangle(r, Vtx(fs[idx], 1), Vtx(fs[idx], 2), Vtx(fs[idx], 3))

\* t = 1e20; id = 0; hit = false; hitFaceIndex = -1
NoHit == [t |-> QBig(TInitHi), id |-> 0, hit |-> FALSE, face |-> -1]

\* if (d > 0 && d < t) { t = d; id = 1; hit = true; hitFaceIndex = realIdx; }
TryTriangle(fs, r, idx, best) ==
    LET d == TriHit(fs, r, idx).t
    IN  IF QPos(d) /\ QLess(d, best.t) THEN [t |-> d, id |-> 1, hit |-> TRUE, face |-> idx] ELSE best

\* The leaf's loop over its triCount triangles.
RECURSIVE LeafLoop(_, _, _, _, _, _)
LeafLoop(fs, tri, r, node, i, best) ==
    IF i >= node.triCount THEN best
    ELSE LeafLoop(fs, tri, r, node, i + 1, TryTriangle(fs, r, tri[node.firstTriIndex + i], best))

\* if (node->right) push(right); if (node->left) push(left);
PushChildren(stack, node, rightFirst) ==
    LET a == IF rightFirst THEN node.right ELSE node.left
        b == IF rightFirst THEN node.left ELSE node.right
        s1 == IF a # 0 THEN Append(stack, a) ELSE stack
    IN  IF b # 0 THEN Append(s1, b) ELSE s1

\* The while loop of getIntersection.  acc holds the running best hit, the
\* nodes popped so far and the largest stack pointer seen.
RECURSIVE TraverseLoop(_, _, _, _, _, _, _)
TraverseLoop(fs, ns, tri, r, stack, acc, rightFirst) ==
    IF Len(stack) = 0 THEN acc
    ELSE LET k == stack[Len(stack)]
             node == ns[k]
             rest == SubSeq(stack, 1, Len(stack) - 1)
             seen == [acc EXCEPT !.visited = Append(@, k)]
         IN  IF ~AABBIntersect(node.box, r, acc.best.t)
             THEN TraverseLoop(fs, ns, tri, r, rest, seen, rightFirst)
             ELSE IF node.triCount > 0
             THEN TraverseLoop(fs, ns, tri, r, rest,
                      [seen EXCEPT !.best = LeafLoop(fs, tri, r, node, 0, acc.best)], rightFirst)
             ELSE LET st == PushChildren(rest, node, rightFirst)
                  IN  TraverseLoop(fs, ns, tri, r, st,
                          [seen EXCEPT !.maxStack = IMax(@, Len(st))], rightFirst)

\* if (g_renderMesh && g_renderMesh->bvhRoot) { ...the traversal... }
RootUsable(root) == root # 0

MeshTest(fs, ns, tri, root, r, rightFirst) ==
    LET acc0 == [best |-> NoHit, visited |-> << >>, maxStack |-> 0]
    IN  IF RootUsable(root)
        THEN TraverseLoop(fs, ns, tri, r, <<root>>, [acc0 EXCEPT !.maxStack = 1], rightFirst)
        ELSE acc0

\* The ground: if (|d.y| > 1e-6) { t_plane = (-1.2 - o.y) * inv_d.y;
\*   if (t_plane > 1e-4 && t_plane < t) { t = t_plane; id = 2; } }
Closer(tNew, t) == QLess(tNew, t)

GroundTest(r, best) ==
    IF r.dn[2] = 0 THEN best
    ELSE LET tp == SlabT(GroundY, r.o[2], r.dn[2], r.dd)
         IN  IF QPos(tp) /\ Closer(tp, best.t)
             THEN [best EXCEPT !.t = tp, !.id = 2, !.hit = TRUE] ELSE best

\* The integer square root of a perfect square (rays are chosen so that the
\* light's discriminant is one).
ISqrt(x) == CHOOSE k \in 0 .. 200 : k * k = x \/ (k = 200 /\ \A j \in 0 .. 199 : j * j # x)

\* b = op.d = B/dd, det = b^2 - op.op + 0.01, held as D = det * dd^2.
LightDet(r) ==
    LET op == VSub(<<0, LightY, 0>>, r.o)
        B == Dot(op, r.dn)
    IN  B * B - (Dot(op, op) - LightR2) * r.dd * r.dd

\* The light: if (det > 0) { t_luz = b - sqrt(det);
\*   if (t_luz > 1e-4 && t_luz < t) { t = t_luz; id = 3; } }
LightTest(r, best) ==
    LET op == VSub(<<0, LightY, 0>>, r.o)
        B == Dot(op, r.dn)
        D == LightDet(r)
    IN  IF D <= 0 THEN best
        ELSE LET tl == QFrac(B - ISqrt(D), r.dd)
             IN  IF QPos(tl) /\ Closer(tl, best.t)
                 THEN [best EXCEPT !.t = tl, !.id = 3, !.hit = TRUE] ELSE best

\* getIntersection(r, ...): the mesh through the BVH, then the ground, then
\* the light.
GetIntersection(fs, ns, tri, root, r, rightFirst) ==
    LET m == MeshTest(fs, ns, tri, root, r, rightFirst)
    IN  [m EXCEPT !.best = LightTest(r, GroundTest(r, m.best))]

(***************************************************************************)
(* The rays of the model: unit directions dn/dd, integer origins, kept     *)
(* when the light's discriminant is a perfect square (so that sqrt is      *)
(* exact).                                                                 *)
(***************************************************************************)
RayDirs ==
    {  [dn |-> <<0, 0, 1>>, dd |-> 1], [dn |-> <<0, -1, 0>>, dd |-> 1], [dn |-> <<0, 1, 0>>, dd |-> 1],
       [dn |-> <<-1, 0, 0>>, dd |-> 1], [dn |-> <<1, 2, 2>>, dd |-> 3], [dn |-> <<-2, -1, 2>>, dd |-> 3]  }

RayOrigins ==
    {  <<2, 2, -15>>, <<10, 0, -15>>, <<0, -5, 0>>, <<0, 20, 0>>, <<3, 5, 3>>, <<15, 3, 3>>, <<-3, -10, -12>>  }

IsSquare(x) == \E k \in 0 .. 200 : k * k = x

Rays ==
    {  r \in {[o |-> o, dn |-> d.dn, dd |-> d.dd] : o \in RayOrigins, d \in RayDirs} :
           LightDet(r) <= 0 \/ IsSquare(LightDet(r))  }

(***************************************************************************)
(* The BVH specification: a scene is constructed, buildBVH runs, and rays  *)
(* are intersected with the scene.                                         *)
(***************************************************************************)
Scenes(most) == UNION {[0 .. n - 1 -> FaceCatalogue] : n \in 0 .. most}

NoQuery == [valid |-> FALSE]

InitScene(most) ==
    /\ faces \in Scenes(most)
    /\ triIndices = << >>
    /\ nodes = << >>
    /\ bvhRoot = 0
    /\ bpc = "scene"
    /\ isect = NoQuery

\* controls.cpp, step 6 of the 'p' branch: buildBVH(scene); g_renderMesh = &scene.
BuildBVH ==
    /\ bpc = "scene"
    /\ LET b == BuildBVHResult(faces)
       IN  /\ triIndices' = b.tri
           /\ nodes' = b.nodes
           /\ bvhRoot' = b.root
    /\ bpc' = "built"
    /\ UNCHANGED <<faces, isect>>
    /\ UNCHANGED <<radVars, frameVars, editorVars, callVars>>

\* One call of getIntersection on the built scene.
Intersect ==
    /\ bpc = "built"
    /\ ~isect.valid
    /\ \E r \in Rays :
           LET g == GetIntersection(faces, nodes, triIndices, bvhRoot, r, TRUE)
           IN  isect' = [valid |-> TRUE, ray |-> r, best |-> g.best,
                         visited |-> g.visited, maxStack |-> g.maxStack]
    /\ UNCHANGED <<faces, triIndices, nodes, bvhRoot, bpc>>
    /\ UNCHANGED <<radVars, frameVars, editorVars, callVars>>

\* The caller has used the results and goes on to its next ray.
NextRay ==
    /\ isect.valid
    /\ isect' = NoQuery
    /\ UNCHANGED <<faces, triIndices, nodes, bvhRoot, bpc>>
    /\ UNCHANGED <<radVars, frameVars, editorVars, callVars>>

(***************************************************************************)
(* radiance(r, seed).  The scene and the random draws are inputs of each   *)
(* step: what the primary ray hits, the albedo found there, what the       *)
(* shadow ray reports and the roulette's draw.  Colours are kept as the    *)
(* terms they are summed from: finalColor is the sequence of its terms and *)
(* throughput the sequence of its factors, f/p a factor [num, den].        *)
(***************************************************************************)
\* Albedos in tenths: 0.7 the mesh's grey, a texel boosted above 1 by the
\* 1.3 of the loader, a black texel; 0.8 and 0.2 the ground's checkerboard.
MeshAlbedos == {<<7, 7, 7>>, <<13, 5, 0>>, <<0, 0, 0>>}
GroundAlbedos == {<<8, 8, 8>>, <<2, 2, 2>>}
Albedos(id) == IF id = 1 THEN MeshAlbedos ELSE GroundAlbedos

\* What the shadow ray's getIntersection reports: nothing, a triangle, the
\* ground, the light within dist + 0.1, the light beyond it.
ShadowOutcomes == {"miss", "mesh", "ground", "light", "lightFar"}

\* random_float(seed) in tenths; hash * 2^-32 rounds to 1.0f for the largest
\* hashes.
RouletteDraws == {0, 5, 10}

IdleRad ==
    [pc |-> "idle", depth |-> 0, finalColor |-> << >>, throughput |-> << >>,
     iters |-> 0, primary |-> 0, shadow |-> 0, draws |-> 0,
     exit |-> "none", result |-> << >>, steps |-> << >>,
     nee |-> [shadow |-> "none", cosPositive |-> FALSE]]  \* cosPositive: cosTheta > 0, computed when visible

Term(kind, depth, tp, f) == [kind |-> kind, depth |-> depth, tp |-> tp, f |-> f]
White == <<10, 10, 10>>

\* (mutant) the loop runs while depth <= 5.
LoopCondOffByOne(depth) == depth <= MaxDepth

\* for (...; depth < 5; ...)
LoopCond(depth) == depth < MaxDepth

\* double p = std::max({f.x, f.y, f.z})
MaxChannel(f) == IMax(IMax(f[1], f[2]), f[3])

\* (mutant) the roulette starts one bounce earlier.
RoulettePlayedFromTwo(depth) == depth >= RouletteDepth

\* if (depth > 2)
RoulettePlayed(depth) == depth > RouletteDepth

\* The steps of one bounce in the order of the loop body: the shadow ray of
\* next-event estimation, the roulette (if (depth > 2)), which may break,
\* throughput = throughput * f, r = Ray(x, d).
BounceSteps(played, broke) ==
    <<"shadow">> \o (IF played THEN <<"roulette">> ELSE << >>)
                 \o (IF played /\ broke THEN << >> ELSE <<"throughput", "ray">>)

\* (mutant) the emission is added at every depth.
LightHitAlwaysEmits(depth, finalColor, throughput) ==
    Append(finalColor, Term("emission", depth, throughput, White))

\* if (id == 3): return depth == 0 ? finalColor + throughput * lightEmission : finalColor
LightHitResult(depth, finalColor, throughput) ==
    IF depth = 0 THEN Append(finalColor, Term("emission", depth, throughput, White)) ELSE finalColor

\* (mutant) the shadow ray's report is not consulted.
DirectLightUnshadowed(depth, finalColor, throughput, f, shadow, cosPositive) ==
    IF cosPositive
    THEN Append(finalColor, Term("nee", depth, throughput, f)) ELSE finalColor

\* if (id_s == 3 && t_s < dist + 0.1) visible = true; if (visible && cosTheta > 0) add
DirectLight(depth, finalColor, throughput, f, shadow, cosPositive) ==
    IF shadow = "light" /\ cosPositive
    THEN Append(finalColor, Term("nee", depth, throughput, f)) ELSE finalColor

InitRad == rad = IdleRad

\* The call: throughput = 1, finalColor = 0, depth = 0.
RadCall ==
    /\ rad.pc = "idle"
    /\ rad' = [IdleRad EXCEPT !.pc = "loop"]
    /\ UNCHANGED <<bvhVars, frameVars, editorVars, callVars>>

\* An iteration whose primary ray hits nothing: the ambient term is returned.
RadMiss ==
    /\ rad.pc = "loop" /\ LoopCond(rad.depth)
    /\ rad' = [rad EXCEPT !.pc = "done", !.iters = @ + 1, !.primary = @ + 1, !.exit = "miss", !.steps = << >>,
                          !.result = Append(rad.finalColor, Term("ambient", rad.depth, rad.throughput, White))]
    /\ UNCHANGED <<bvhVars, frameVars, editorVars, callVars>>

\* An iteration whose primary ray hits the light (id == 3).
RadLight ==
    /\ rad.pc = "loop" /\ LoopCond(rad.depth)
    /\ rad' = [rad EXCEPT !.pc = "done", !.iters = @ + 1, !.primary = @ + 1, !.exit = "light", !.steps = << >>,
                          !.result = LightHitResult(rad.depth, rad.finalColor, rad.throughput)]
    /\ UNCHANGED <<bvhVars, frameVars, editorVars, callVars>>

\* The probability, in tenths, that random_float(seed) < p: random_float is
\* spread evenly over [0, 1].
SurvivalProbability(p) == IMax(0, IMin(10, p))

\* An iteration whose primary ray hits the mesh (id 1) or the ground (id 2):
\* the albedo, next-event estimation, the roulette, the throughput update
\* and the new ray.
RadBounce ==
    /\ rad.pc = "loop" /\ LoopCond(rad.depth)
    /\ \E id \in {1, 2} : \E f \in Albedos(id) : \E sh \in ShadowOutcomes :
       \E cosPositive \in BOOLEAN : \E rnd \in RouletteDraws :
           LET fc == DirectLight(rad.depth, rad.finalColor, rad.throughput, f, sh, cosPositive)
               p == MaxChannel(f)
               played == RoulettePlayed(rad.depth)
               counted == [rad EXCEPT !.iters = @ + 1, !.primary = @ + 1, !.shadow = @ + 1,
                                      !.finalColor = fc, !.steps = BounceSteps(played, ~(rnd < p)),
                                      !.nee = [shadow |-> sh, cosPositive |-> sh = "light" /\ cosPositive]]
           IN  IF played /\ ~(rnd < p)
               THEN \* else break;
                    rad' = [counted EXCEPT !.pc = "done", !.draws = @ + 3, !.exit = "roulette",
                                           !.result = fc]
               ELSE rad' = [counted EXCEPT
                               !.draws = @ + (IF played THEN 5 ELSE 4),
                               !.throughput = Append(@, [num |-> f, den |-> IF played THEN p ELSE 1]),
                               !.depth = @ + 1]
    /\ UNCHANGED <<bvhVars, frameVars, editorVars, callVars>>

\* The loop condition fails: return finalColor.
RadLoopEnd ==
    /\ rad.pc = "loop" /\ ~LoopCond(rad.depth)
    /\ rad' = [rad EXCEPT !.pc = "done", !.exit = "depth", !.result = rad.finalColor]
    /\ UNCHANGED <<bvhVars, frameVars, editorVars, callVars>>

\* The caller takes the colour.
RadReturn ==
    /\ rad.pc = "done"
    /\ rad' = IdleRad
    /\ UNCHANGED <<bvhVars, frameVars, editorVars, callVars>>

(***************************************************************************)
(* The pseudorandom state: a uint32 held as <<high 16 bits, low 16 bits>>. *)
(***************************************************************************)
\* a * b for a, b < 2^16, as <<high, low>> 16-bit halves, without leaving
\* 31 bits.
Mul16(a, b) ==
    LET x == a * (b \div 256)
        y == a * (b % 256)
        z == (x % 256) * 256 + y
    IN  <<((x \div 256) + (z \div 65536)) % 65536, z % 65536>>

\* a * b mod 2^32
Mul32(a, b) ==
    LET ll == Mul16(a[2], b[2])
        lh == Mul16(a[2], b[1])
        hl == Mul16(a[1], b[2])
    IN  <<(ll[1] + lh[2] + hl[2]) % 65536, ll[2]>>

\* a + b mod 2^32
Add32(a, b) ==
    LET lo == a[2] + b[2]
    IN  <<(a[1] + b[1] + (lo \div 65536)) % 65536, lo % 65536>>

\* (uint32) n for an int n >= 0
ToU32(n) == <<(n \div 65536) % 65536, n % 65536>>

\* 747796405u and 2891336453u as 16-bit halves.
PcgMultiplier == <<11410, 30645>>
PcgIncrement == <<44118, 19205>>

\* hash_pcg: state = state * 747796405u + 2891336453u
HashPcgNext(state) == Add32(Mul32(state, PcgMultiplier), PcgIncrement)


\* The state update is the affine map s -> a s + c of the 32-bit integers;
\* <<a, c>> stands for one, and Then(f, g) for f followed by g.
PcgStep == <<PcgMultiplier, PcgIncrement>>
Then(f, g) == <<Mul32(g[1], f[1]), Add32(Mul32(g[1], f[2]), g[2])>>

\* n state updates in a row, by halving n.
RECURSIVE PcgSteps(_)
PcgSteps(n) ==
    IF n = 0 THEN <<ToU32(1), ToU32(0)>>
    ELSE IF n % 2 = 1 THEN Then(PcgSteps(n - 1), PcgStep)
    ELSE LET half == PcgSteps(n \div 2) IN Then(half, half)

\* The state after n draws.
Draw(state, n) == LET f == PcgSteps(n) IN Add32(Mul32(f[1], state), f[2])

(***************************************************************************)
(* updatePathTracingFrame.  A radiance estimate is held as what it is a    *)
(* function of: the camera, the pixel, whether the sample is jittered and  *)
(* the seed its pixel starts from.  A slot of the accumulation buffer is   *)
(* the bag of the estimates summed in it and a displayed colour is the     *)
(* slot and the count it is divided by, so that equal colours of the model *)
(* are equal bytes of the program.                                         *)
(***************************************************************************)
Est(c, x, y, jitter, seed) == [cam |-> c, x |-> x, y |-> y, jitter |-> jitter, seed |-> seed]

\* The draws one call of radiance makes.  Every bounce draws 2 for the point
\* on the light and 2 for the next direction, and past depth 2 one more for
\* the roulette, which ends the path when lost: 0 when the first ray misses,
\* 4, 8 or 12 when the path ends after one, two or three bounces, 15 when the
\* roulette of the fourth is lost.  The scene decides; the model fixes one
\* scene, in which the count follows the camera, the pixel and the seed.
RadianceDraws(c, x, y, seed) ==
    <<0, 4, 8, 12, 15>>[((seed[2] + x + 2 * y + IAbs(c[1]) + c[3]) % 5) + 1]

Black == [acc |-> EmptyBag, n |-> 0]

\* color = g_accumBuffer[i] * (1.0 / g_ptSamples); r, g, b = toInt(color.x, .y, .z);
\* toInt(0) = 0.
ToneSlot(slot, samples) == IF slot = EmptyBag THEN Black ELSE [acc |-> slot, n |-> samples]

\* A comparison that watches the two rotations only.
CameraChangedRotationOnly(l, c) == l[1] # c[1] \/ l[2] # c[2]

\* if (last_rot_x != g_rotation_x || ... || last_off_y != g_offset_y)
CameraChanged(l, c) == \E k \in 1 .. 5 : l[k] # c[k]

\* std::fill(g_accumBuffer.begin(), g_accumBuffer.end(), Vec3(0, 0, 0))
ZeroAccum(acc) == [i \in DOMAIN acc |-> EmptyBag]

\* A stride that is still coarse when four samples have been counted.
StepForUpToFour(samples) == IF samples <= CoarseSamples THEN CoarseStep ELSE 1

\* int step = (g_ptSamples < 4) ? 6 : 1, read before g_ptSamples++
StepFor(samples) == IF samples < CoarseSamples THEN CoarseStep ELSE 1

\* An index that forgets the row.
PixelIndexNoRow(x, y, w, h) == x

\* int i = (g_winHeight - 1 - y) * g_winWidth + x
PixelIndex(x, y, w, h) == (h - 1 - y) * w + x

\* A block of the sampled pixel alone.
BlockPixelsAnchorOnly(x, y, step, w, h) == {(h - 1 - y) * w + x}

\* A block that is not clipped at the edges.
BlockPixelsUnclipped(x, y, step, w, h) ==
    {(h - 1 - (y + by)) * w + (x + bx) : bx \in 0 .. step - 1, by \in 0 .. step - 1}

\* The block of a sampled pixel, clipped at the right and bottom edges.
BlockPixels(x, y, step, w, h) ==
    {PixelIndex(x + bx, y + by, w, h) : bx \in {b \in 0 .. step - 1 : x + b < w},
                                        by \in {b \in 0 .. step - 1 : y + b < h}}

\* if (step == 1) accum[i] = accum[i] + rayColor; else accum[i] = rayColor * g_ptSamples
Accumulate(slot, est, step, samples) ==
    IF step = 1 THEN slot (+) SetToBag({est}) ELSE [e \in {est} |-> samples]

\* The x loop of one row, from pixel x on with the row's seed as it stands.
RECURSIVE RowLoop(_, _, _, _, _, _, _, _, _)
RowLoop(x, y, seed, acc, pix, step, samples, c, wh) ==
    IF x >= wh[1] THEN [acc |-> acc, pix |-> pix]
    ELSE LET i == PixelIndex(x, y, wh[1], wh[2])
             jitter == step = 1
             s1 == IF jitter THEN Draw(seed, 2) ELSE seed
             est == Est(c, x, y, jitter, seed)
             s2 == Draw(s1, RadianceDraws(c, x, y, s1))
             acc2 == [acc EXCEPT ![i] = Accumulate(acc[i], est, step, samples)]
             colour == ToneSlot(acc2[i], samples)
             blk == BlockPixels(x, y, step, wh[1], wh[2])
             pix2 == [j \in DOMAIN pix |-> IF j \in blk THEN colour ELSE pix[j]]
         IN  RowLoop(x + step, y, s2, acc2, pix2, step, samples, c, wh)

\* uint32_t seed = (y * 91214) + (g_ptSamples * 71932)
RowSeed(y, samples) == ToU32(y * 91214 + samples * 71932)

\* One iteration of the parallel row loop.
RowBody(y, acc, pix, step, samples, c, wh) ==
    RowLoop(0, y, RowSeed(y, samples), acc, pix, step, samples, c, wh)

\* A loop that advances by one line whatever the stride.
RowsOfEveryLine(step, h) == 0 .. h - 1

\* The rows the loop visits: y = 0, step, 2 step, ... < g_winHeight.
RowsOf(step, h) == {y \in 0 .. h - 1 : y % step = 0}

\* The columns the inner loop visits: x = 0, step, 2 step, ... < g_winWidth.
ColumnsOf(step, w) == {x \in 0 .. w - 1 : x % step = 0}

\* The accumulation slots iteration y writes: g_accumBuffer[i].
RowSlotWrites(y, step, wh) == {PixelIndex(x, y, wh[1], wh[2]) : x \in ColumnsOf(step, wh[1])}

\* The display bytes iteration y writes: g_pixelBuffer[blockIndex + 0 .. 2].
RowByteWrites(y, step, wh) ==
    UNION {{3 * j + k : k \in 0 .. 2, j \in BlockPixels(x, y, step, wh[1], wh[2])} :
           x \in ColumnsOf(step, wh[1])}

\* Camera inputs: 's', 'd', 'a' (updateRotation), '+' (processZoom), right and
\* up (updateNavigation), one step each.
CameraMoves ==
    {<<1, 0, 0, 0, 0>>, <<0, 1, 0, 0, 0>>, <<0, -1, 0, 0, 0>>,
     <<0, 0, 1, 0, 0>>, <<0, 0, 0, 1, 0>>, <<0, 0, 0, 0, 1>>}

\* The window sizes of the model (glutGet at the time render mode starts).
WinSizes == {<<1, 1>>, <<7, 2>>, <<2, 7>>}

NoFrame == [step |-> 1, isMoving |-> FALSE, todo |-> {}, changed |-> FALSE,
            acc0 |-> << >>, pix0 |-> << >>, seenCam |-> << >>,
            samples |-> 0, slotWrites |-> {}, byteWrites |-> {}]

\* Render mode has just been switched on in a fresh process:
\* initPathTracingTexture(w, h) has sized and zeroed the buffers.
InitFrame ==
    /\ g_renderMesh = TRUE
    /\ cam = <<0, 0, InitialZoom, 0, 0>>
    /\ last_cam = <<0, 0, 0, 0, 0>>
    /\ g_ptSamples = 0
    /\ \E wh \in WinSizes :
           /\ g_winWidth = wh[1] /\ g_winHeight = wh[2]
           /\ g_accumBuffer = [i \in 0 .. wh[1] * wh[2] - 1 |-> EmptyBag]
           /\ g_pixelBuffer = [i \in 0 .. wh[1] * wh[2] - 1 |-> Black]
    /\ fpc = "idle"
    /\ frame = NoFrame
    /\ moves = 0

IdleFrame ==
    /\ g_renderMesh = FALSE
    /\ cam = <<0, 0, InitialZoom, 0, 0>>
    /\ last_cam = <<0, 0, 0, 0, 0>>
    /\ g_ptSamples = 0
    /\ g_winWidth = 1 /\ g_winHeight = 1
    /\ g_accumBuffer = << >>
    /\ g_pixelBuffer = << >>
    /\ fpc = "idle"
    /\ frame = NoFrame
    /\ moves = 0

\* idleCallback / keyboardDownCallback between two frames: one camera
\* parameter moves by one step.
CameraInput ==
    /\ fpc # "rows"
    /\ moves < MaxMoves
    /\ \E d \in CameraMoves : cam' = [k \in 1 .. 5 |-> cam[k] + d[k]]
    /\ moves' = moves + 1
    /\ UNCHANGED <<g_renderMesh, last_cam, g_ptSamples, g_winWidth, g_winHeight,
                   g_accumBuffer, g_pixelBuffer, fpc, frame>>
    /\ UNCHANGED <<bvhVars, radVars, editorVars, callVars>>

\* updatePathTracingFrame up to the parallel loop: motion detection, the
\* reset, the stride, g_ptSamples++.
FrameBegin ==
    /\ fpc # "rows"
    /\ g_renderMesh
    /\ g_ptSamples < MaxSamples
    /\ LET moving == CameraChanged(last_cam, cam)
           samples0 == IF moving THEN 0 ELSE g_ptSamples
           acc == IF moving THEN ZeroAccum(g_accumBuffer) ELSE g_accumBuffer
           step == StepFor(samples0)
       IN  /\ last_cam' = IF moving THEN cam ELSE last_cam
           /\ g_accumBuffer' = acc
           /\ g_ptSamples' = samples0 + 1
           /\ frame' = [step |-> step, isMoving |-> moving, todo |-> RowsOf(step, g_winHeight),
                        changed |-> (frame.seenCam # << >> /\ cam # frame.seenCam), acc0 |-> acc, pix0 |-> g_pixelBuffer,
                        seenCam |-> cam, samples |-> samples0 + 1,
                        slotWrites |-> {}, byteWrites |-> {}]
    /\ fpc' = "rows"
    /\ UNCHANGED <<g_renderMesh, cam, g_winWidth, g_winHeight, g_pixelBuffer, moves>>
    /\ UNCHANGED <<bvhVars, radVars, editorVars, callVars>>

\* A worker runs one iteration y of the parallel loop.
Row ==
    /\ fpc = "rows"
    /\ \E y \in frame.todo :
           LET r == RowBody(y, g_accumBuffer, g_pixelBuffer, frame.step, g_ptSamples, cam,
                            <<g_winWidth, g_winHeight>>)
           IN  /\ g_accumBuffer' = r.acc
               /\ g_pixelBuffer' = r.pix
               /\ frame' = [frame EXCEPT
                      !.todo = @ \ {y},
                      !.slotWrites = @ \cup
                          {<<y, i>> : i \in RowSlotWrites(y, frame.step, <<g_winWidth, g_winHeight>>)},
                      !.byteWrites = @ \cup
                          {<<y, i>> : i \in RowByteWrites(y, frame.step, <<g_winWidth, g_winHeight>>)}]
    /\ UNCHANGED <<g_renderMesh, cam, last_cam, g_ptSamples, g_winWidth, g_winHeight, fpc, moves>>
    /\ UNCHANGED <<bvhVars, radVars, editorVars, callVars>>

\* The loop has joined: glTexSubImage2D uploads g_pixelBuffer.
FrameEnd ==
    /\ fpc = "rows"
    /\ frame.todo = {}
    /\ fpc' = "shown"
    /\ UNCHANGED <<g_renderMesh, cam, last_cam, g_ptSamples, g_winWidth, g_winHeight,
                   g_accumBuffer, g_pixelBuffer, frame, moves>>
    /\ UNCHANGED <<bvhVars, radVars, editorVars, callVars>>

\* The rows of a frame run one after the other, in ascending order.
RECURSIVE SequentialRows(_, _, _, _, _, _, _)
SequentialRows(ys, acc, pix, step, samples, c, wh) ==
    IF ys = {} THEN [acc |-> acc, pix |-> pix]
    ELSE LET y == CHOOSE m \in ys : \A o \in ys : m <= o
             r == RowBody(y, acc, pix, step, samples, c, wh)
         IN  SequentialRows(ys \ {y}, r.acc, r.pix, step, samples, c, wh)

(***************************************************************************)
(* The editor and the 'p' key (keyboardDownCallback).  The editor's mesh   *)
(* is a vertex array and a list of faces of 3, 4 or 5 vertices; the key    *)
(* handler copies it into the static scene, triangulated, and builds the   *)
(* BVH.  BVH nodes live on the heap: nodes is every node ever allocated,   *)
(* in allocation order, and freed the ones delete was called on.           *)
(***************************************************************************)
\* The editor's vertices: those of the scene at twice the size, off centre.
\* Their bounding box has side 4.0, so the handler's scale 2/4 is exact.
EditorVertices == [k \in DOMAIN Vertices |-> VAdd([a \in 1 .. 3 |-> 2 * Vertices[k][a]], <<4, 0, -6>>)]

\* The faces the editor can create over them: a triangle, a quad, a pentagon.
EditorFaceCatalogue == {<<1, 4, 6>>, <<7, 3, 5, 2>>, <<3, 4, 2, 5, 6>>}

\* Step 2 of the 'p' branch: centre the bounding box at the origin and scale
\* its longest side to 2: (v - center) * (2 / maxDim), in tenths.
Normalise(vs) ==
    LET lo(a) == CHOOSE m \in {vs[k][a] : k \in DOMAIN vs} : \A k \in DOMAIN vs : m <= vs[k][a]
        hi(a) == CHOOSE m \in {vs[k][a] : k \in DOMAIN vs} : \A k \in DOMAIN vs : m >= vs[k][a]
        maxDim == IMax(IMax(hi(1) - lo(1), hi(2) - lo(2)), hi(3) - lo(3))
        den == IF maxDim > 0 THEN maxDim ELSE 10
    IN  [k \in DOMAIN vs |-> [a \in 1 .. 3 |-> ((2 * vs[k][a] - (lo(a) + hi(a))) * 10) \div den]]

\* scene.faces.clear() with the clear forgotten.
KeptFaces(fs) == IF fs = << >> THEN << >> ELSE [i \in 1 .. Cardinality(DOMAIN fs) |-> fs[i - 1]]

\* scene.faces.clear()
ClearedFaces(fs) == << >>

\* Step 5 for one face: a triangle is pushed as it is, a quad as
\* (f0, f1, f2) and (f0, f2, f3); there is no branch for other sizes.
TriangulateFace(f) ==
    IF Len(f) = 3 THEN <<<<f[1], f[2], f[3]>>>>
    ELSE IF Len(f) = 4 THEN <<<<f[1], f[2], f[3]>>, <<f[1], f[3], f[4]>>>>
    ELSE << >>

\* The loop of step 5 over the editor's faces, pushing onto scene.faces.
RECURSIVE TriangulateLoop(_, _, _)
TriangulateLoop(m, fIdx, out) ==
    IF fIdx > Len(m) THEN out
    ELSE TriangulateLoop(m, fIdx + 1, out \o TriangulateFace(m[fIdx]))

\* scene.faces is indexed from 0.
FromZero(sq) == IF sq = << >> THEN << >> ELSE [i \in 0 .. Len(sq) - 1 |-> sq[i + 1]]

\* buildBVH(scene), the new nodes allocated after those of the heap.
BuildBVHOnHeap(heap, fs) ==
    LET n == Cardinality(DOMAIN fs)
    IN  IF BuildSkips(n)
        THEN [nodes |-> heap, tri |-> << >>, root |-> 0]
        ELSE BuildBVHRecursive(fs, heap, [i \in 0 .. n - 1 |-> i], 0, n)

\* initPathTracingTexture(w, h): vector::resize keeps the elements that fit
\* and value-initialises the new ones.
Resized(buf, n, zero) == [i \in 0 .. n - 1 |-> IF i \in DOMAIN buf THEN buf[i] ELSE zero]

\* No 'p' has been pressed; g_pathTracingMode follows the scene pointer.
IdleEditor ==
    /\ g_pathTracingMode = g_renderMesh
    /\ mesh = << >>
    /\ meshVertices = EditorVertices
    /\ sceneVertices = Vertices
    /\ freed = {}
    /\ toggles = 0

\* The program has started in the editor: an empty mesh, nothing rendered.
InitEditor ==
    /\ g_pathTracingMode = FALSE
    /\ mesh = << >>
    /\ meshVertices = EditorVertices
    /\ sceneVertices = << >>
    /\ freed = {}
    /\ toggles = 0

\* 'f' / 'e': a face is added to the mesh (with the vertices, when there are
\* none).
EditCreate ==
    /\ Len(mesh) < MaxMeshFaces
    /\ \E f \in EditorFaceCatalogue : mesh' = Append(mesh, f)
    /\ meshVertices' = EditorVertices
    /\ UNCHANGED <<g_pathTracingMode, sceneVertices, freed, toggles>>
    /\ UNCHANGED <<bvhVars, radVars, frameVars, callVars>>

\* DEL with one face selected: deleteSelectedElements removes it.
EditDeleteFace ==
    /\ \E i \in 1 .. Len(mesh) :
           mesh' = [k \in 1 .. Len(mesh) - 1 |-> IF k < i THEN mesh[k] ELSE mesh[k + 1]]
    /\ UNCHANGED <<g_pathTracingMode, meshVertices, sceneVertices, freed, toggles>>
    /\ UNCHANGED <<bvhVars, radVars, frameVars, callVars>>

\* DEL with everything selected: no face and no vertex is left.
EditDeleteAll ==
    /\ meshVertices # << >>
    /\ mesh' = << >>
    /\ meshVertices' = << >>
    /\ UNCHANGED <<g_pathTracingMode, sceneVertices, freed, toggles>>
    /\ UNCHANGED <<bvhVars, radVars, frameVars, callVars>>

\* 'p' while render mode is off: the scene is rebuilt from the mesh, unless
\* the mesh has no vertex.
ToggleOn ==
    /\ ~g_pathTracingMode
    /\ toggles < MaxToggles
    /\ toggles' = toggles + 1
    /\ IF meshVertices = << >>
       THEN /\ g_pathTracingMode' = FALSE
            /\ UNCHANGED <<mesh, meshVertices, sceneVertices, freed>>
            /\ UNCHANGED <<bvhVars, radVars, frameVars, callVars>>
       ELSE \E wh \in WinSizes :
            LET fs == FromZero(TriangulateLoop(mesh, 1, ClearedFaces(faces)))
                b == BuildBVHOnHeap(nodes, fs)
            IN  /\ g_pathTracingMode' = TRUE
                /\ freed' = IF bvhRoot # 0 THEN freed \cup {bvhRoot} ELSE freed
                /\ sceneVertices' = Normalise(meshVertices)
                /\ faces' = fs
                /\ triIndices' = b.tri
                /\ nodes' = b.nodes
                /\ bvhRoot' = b.root
                /\ g_renderMesh' = TRUE
                /\ g_winWidth' = wh[1] /\ g_winHeight' = wh[2]
                /\ g_accumBuffer' = Resized(g_accumBuffer, wh[1] * wh[2], EmptyBag)
                /\ g_pixelBuffer' = Resized(g_pixelBuffer, wh[1] * wh[2], Black)
                /\ g_ptSamples' = 0
                /\ UNCHANGED <<mesh, meshVertices, bpc, isect, cam, last_cam, fpc, frame, moves>>
                /\ UNCHANGED <<radVars, callVars>>

\* A key that switches the mode off and leaves the scene pointer as it is.
ToggleOffKeepsPointer ==
    /\ g_pathTracingMode
    /\ toggles < MaxToggles
    /\ toggles' = toggles + 1
    /\ g_pathTracingMode' = FALSE
    /\ UNCHANGED <<mesh, meshVertices, sceneVertices, freed>>
    /\ UNCHANGED <<g_renderMesh, cam, last_cam, g_ptSamples, g_winWidth, g_winHeight, g_accumBuffer,
                   g_pixelBuffer, fpc, frame, moves>>
    /\ UNCHANGED <<bvhVars, radVars, callVars>>

\* 'p' while render mode is on.
ToggleOff ==
    /\ g_pathTracingMode
    /\ toggles < MaxToggles
    /\ toggles' = toggles + 1
    /\ g_pathTracingMode' = FALSE
    /\ g_renderMesh' = FALSE
    /\ UNCHANGED <<mesh, meshVertices, sceneVertices, freed>>
    /\ UNCHANGED <<cam, last_cam, g_ptSamples, g_winWidth, g_winHeight, g_accumBuffer,
                   g_pixelBuffer, fpc, frame, moves>>
    /\ UNCHANGED <<bvhVars, radVars, callVars>>

(***************************************************************************)
(* getPixel / sampleTexture.  A texture is its width and height; its pixel *)
(* vector holds 3 * width * height floats.  u and v are counted in eighths *)
(* and pixel coordinates in sixteenths.  A coordinate may lie just below a *)
(* multiple of 1/8, by less than the double nearest to it can show, so     *)
(* that u - floor(u) rounds up: to 1.0 when u is just below an integer.    *)
(***************************************************************************)
NoCall == [fn |-> "none", pc |-> "idle"]
IdleCall == call = NoCall

TexCoords == {[n |-> n, below |-> b] : n \in -9 .. 17, b \in BOOLEAN}

\* floor(u)
FloorOf(c) == IF c.below THEN (c.n - 1) \div 8 ELSE c.n \div 8

\* u = u - floor(u), in eighths
Tile(c) == c.n - 8 * FloorOf(c)

\* A getPixel that trusts its caller.
Unclamped(x, n) == x

\* x = std::max(0, std::min(x, tex.width - 1))
ClampToEdge(x, n) == IMax(0, IMin(x, n - 1))

\* getPixel(tex, x, y): the texel it settles on and the three floats it reads.
GetPixel(w, h, x, y) ==
    LET cx == ClampToEdge(x, w)
        cy == ClampToEdge(y, h)
        idx == (cy * w + cx) * 3
    IN  [texel |-> <<cx, cy>>, reads |-> {idx, idx + 1, idx + 2}]

\* sampleTexture(tex, u, v)
SampleTexture(w, h, u, v) ==
    IF w * h = 0
    THEN [sentinel |-> TRUE, texels |-> {}, reads |-> {}, dx |-> 0, dy |-> 0]
    ELSE LET px == 2 * Tile(u) * w - 8
             py == 2 * Tile(v) * h - 8
             x0 == px \div 16
             y0 == py \div 16
             x1 == x0 + 1
             y1 == y0 + 1
             c == {GetPixel(w, h, x0, y0), GetPixel(w, h, x1, y0),
                   GetPixel(w, h, x0, y1), GetPixel(w, h, x1, y1)}
         IN  [sentinel |-> FALSE, texels |-> {g.texel : g \in c},
              reads |-> UNION {g.reads : g \in c},
              dx |-> px - 16 * x0, dy |-> py - 16 * y0]

\* radiance samples a texture of the scene.
SampleTextureCall ==
    /\ call.pc = "idle"
    /\ \E w \in 0 .. MaxTexSide : \E h \in 0 .. MaxTexSide : \E u \in TexCoords : \E v \in TexCoords :
           call' = [fn |-> "sampleTexture", pc |-> "done", w |-> w, h |-> h, u |-> u, v |-> v,
                    out |-> SampleTexture(w, h, u, v)]
    /\ UNCHANGED <<bvhVars, radVars, frameVars, editorVars>>

\* The caller takes the result.
CallReturn ==
    /\ call.pc = "done"
    /\ call' = NoCall
    /\ UNCHANGED <<bvhVars, radVars, frameVars, editorVars>>

(***************************************************************************)
(* runPathTracingMode (mode 3).  The output file is what the run leaves on *)
(* disk: whether it exists and the tokens written to it.                   *)
(***************************************************************************)
NoFile == [exists |-> FALSE, tokens |-> << >>]

\* The points a mesh file may list, in tenths.
FilePoints == {<<0, 0, 0>>, <<20, 0, 0>>, <<0, 40, 0>>, <<0, 0, -20>>, <<10, 10, 10>>}

\* The vertex arrays read_file may return.
FileVertexArrays == UNION {[1 .. n -> FilePoints] : n \in 0 .. MaxFileVerts}

\* renderPathTracing(vertices, faces, outputName): the body is empty.
RenderPathTracing(file, vs, outputName) == file

\* main(argc, argv) with argv[1] == "3".
OfflineStart ==
    /\ call.pc = "idle"
    /\ call' = [fn |-> "runPathTracingMode", pc |-> "read", vertices |-> << >>, file |-> NoFile]
    /\ UNCHANGED <<bvhVars, radVars, frameVars, editorVars>>

\* Step 1: read_file throws and the program exits with EXIT_FAILURE, or it
\* returns a mesh.  With no vertex in the mesh, vertices[0] of step 2 reads
\* an empty vector: the run crashes or goes on.
OfflineRead ==
    /\ call.fn = "runPathTracingMode" /\ call.pc = "read"
    /\ \/ call' = [call EXCEPT !.pc = "failed"]
       \/ \E vs \in FileVertexArrays :
              IF vs = << >>
              THEN \E next \in {"crashed", "render"} : call' = [call EXCEPT !.pc = next]
              ELSE call' = [call EXCEPT !.pc = "normalise", !.vertices = vs]
    /\ UNCHANGED <<bvhVars, radVars, frameVars, editorVars>>

\* Steps 2 to 5: centre and scale the vertices, copy the faces.
OfflineNormalise ==
    /\ call.fn = "runPathTracingMode" /\ call.pc = "normalise"
    /\ call' = [call EXCEPT !.pc = "render", !.vertices = Normalise(call.vertices)]
    /\ UNCHANGED <<bvhVars, radVars, frameVars, editorVars>>

\* Step 6: renderPathTracing(vertices, faces, "render_output2_plant.ppm"),
\* and the return to main.
OfflineRender ==
    /\ call.fn = "runPathTracingMode" /\ call.pc = "render"
    /\ call' = [call EXCEPT !.pc = "done",
                            !.file = RenderPathTracing(call.file, call.vertices, "render_output2_plant.ppm")]
    /\ UNCHANGED <<bvhVars, radVars, frameVars, editorVars>>

(***************************************************************************)
(* aces / clamp / toInt.  A double is [k, num, den]: an ordinary value     *)
(* num/den when k is "fin"; a finite value of 1e154 or more when k is      *)
(* "huge" (its square is beyond the largest double); "inf"; "nan".         *)
(***************************************************************************)
Fin(num, den) == [k |-> "fin", num |-> num, den |-> den]
Huge == [k |-> "huge", num |-> 0, den |-> 1]
NaN == [k |-> "nan", num |-> 0, den |-> 1]

\* The kind of a product, a sum and a quotient of positive doubles, the
\* ordinary operands being of the order of 1.
KMul(a, b) ==
    IF a = "nan" \/ b = "nan" THEN "nan"
    ELSE IF a = "inf" \/ b = "inf" THEN "inf"
    ELSE IF a = "huge" /\ b = "huge" THEN "inf"
    ELSE IF a = "huge" \/ b = "huge" THEN "huge"
    ELSE "fin"
KAdd(a, b) ==
    IF a = "nan" \/ b = "nan" THEN "nan"
    ELSE IF a = "inf" \/ b = "inf" THEN "inf"
    ELSE IF a = "huge" \/ b = "huge" THEN "huge"
    ELSE "fin"
KDiv(a, b) ==
    IF a = "nan" \/ b = "nan" THEN "nan"
    ELSE IF a = "inf" /\ b = "inf" THEN "nan"
    ELSE IF a = "inf" THEN "inf"
    ELSE IF a = "huge" /\ b = "fin" THEN "huge"
    ELSE "fin"

\* a * b as three limbs of base 10^4, for a, b < 10^8.
WideMul(a, b) ==
    LET a1 == a \div 10000
        a0 == a % 10000
        b1 == b \div 10000
        b0 == b % 10000
        low == a0 * b0
        mid == a1 * b0 + a0 * b1 + (low \div 10000)
    IN  <<a1 * b1 + (mid \div 10000), mid % 10000, low % 10000>>

\* a * b <= c * d
WideLeq(a, b, c, d) ==
    LET x == WideMul(a, b)
        y == WideMul(c, d)
    IN  \/ x[1] < y[1]
        \/ x[1] = y[1] /\ x[2] < y[2]
        \/ x[1] = y[1] /\ x[2] = y[2] /\ x[3] <= y[3]

\* x = x * exposure, exposure = 0.6
Exposure(x) == IF x.k = "fin" THEN Fin(6 * x.num, 10 * x.den) ELSE [x EXCEPT !.k = KMul("fin", x.k)]

\* aces(x) = (x (2.51 x + 0.03)) / (x (2.43 x + 0.59) + 0.14)
Aces(x) ==
    IF x.k = "fin"
    THEN Fin(x.num * (251 * x.num + 3 * x.den),
             x.num * (243 * x.num + 59 * x.den) + 14 * x.den * x.den)
    ELSE LET top == KMul(x.k, KAdd(KMul("fin", x.k), "fin"))
             bottom == KAdd(KMul(x.k, KAdd(KMul("fin", x.k), "fin")), "fin")
         IN  [x EXCEPT !.k = KDiv(top, bottom)]

\* clamp(x) = x < 0 ? 0 : x > 1 ? 1 : x; both comparisons are false for NaN.
Clamp(x) ==
    IF x.k = "nan" THEN x
    ELSE IF x.k # "fin" THEN Fin(1, 1)
    ELSE IF x.num < 0 THEN Fin(0, 1)
    ELSE IF x.num > x.den THEN Fin(1, 1)
    ELSE x

\* GammaSteps[k] = ((k - 0.5) / 255) ^ 2.2 in millionths, rounded up: the
\* least c for which pow(c, 1 / 2.2) * 255.0 + 0.5 reaches k.
GammaSteps ==
    <<
       2, 13, 39, 80, 139, 216, 312, 428, 563, 719,
       896, 1095, 1315, 1558, 1823, 2111, 2422, 2757, 3115, 3497,
       3904, 4335, 4791, 5272, 5778, 6310, 6867, 7450, 8059, 8695,
       9356, 10044, 10759, 11501, 12270, 13066, 13889, 14740, 15618, 16525,
       17459, 18422, 19412, 20431, 21479, 22555, 23660, 24794, 25957, 27149,
       28370, 29621, 30901, 32210, 33550, 34919, 36318, 37747, 39207, 40696,
       42216, 43767, 45347, 46959, 48601, 50274, 51978, 53714, 55480, 57277,
       59106, 60966, 62858, 64781, 66736, 68722, 70741, 72791, 74873, 76988,
       79134, 81313, 83524, 85768, 88044, 90352, 92694, 95067, 97474, 99914,
       102386, 104891, 107430, 110002, 112607, 115245, 117916, 120621, 123360, 126132,
       128937, 131777, 134650, 137557, 140498, 143472, 146481, 149524, 152601, 155713,
       158858, 162038, 165253, 168502, 171785, 175103, 178455, 181843, 185265, 188722,
       192214, 195740, 199302, 202899, 206531, 210198, 213900, 217638, 221411, 225220,
       229063, 232943, 236858, 240808, 244794, 248816, 252874, 256968, 261097, 265262,
       269464, 273701, 277975, 282284, 286630, 291012, 295430, 299885, 304376, 308904,
       313468, 318068, 322705, 327379, 332089, 336836, 341620, 346441, 351299, 356193,
       361125, 366093, 371099, 376141, 381221, 386338, 391493, 396684, 401913, 407179,
       412483, 417824, 423202, 428619, 434072, 439564, 445093, 450659, 456264, 461906,
       467586, 473305, 479061, 484854, 490686, 496556, 502465, 508411, 514395, 520418,
       526479, 532578, 538716, 544892, 551106, 557359, 563650, 569980, 576348, 582755,
       589201, 595686, 602209, 608771, 615371, 622011, 628689, 635407, 642163, 648958,
       655793, 662666, 669579, 676530, 683521, 690551, 697621, 704729, 711877, 719065,
       726291, 733557, 740863, 748208, 755593, 763017, 770481, 777985, 785528, 793111,
       800733, 808396, 816098, 823840, 831622, 839444, 847306, 855208, 863150, 871132,
       879154, 887216, 895319, 903461, 911644, 919867, 928131, 936434, 944778, 953163,
       961588, 970053, 978559, 987105, 995692  >>

\* int(std::pow(c, 1.0 / 2.2) * 255.0 + 0.5) for c in [0, 1]
GammaByte(c) ==
    Cardinality({k \in 1 .. 255 : WideLeq(GammaSteps[k], c.den, c.num, 1000000)})

\* int(NaN) is undefined: the conversion instruction yields INT_MIN on x86
\* and 0 on ARM.
NanToInt == {-2147483647 - 1, 0}

\* toInt(x): the values the call may return.
ToInt(x) ==
    LET c == Clamp(Aces(Exposure(x)))
    IN  IF c.k = "nan" THEN NanToInt ELSE {GammaByte(c)}

\* The radiance values converted: tenths up to 2.0, halves up to the bound,
\* and a value of 1e154 or more.
ToneInputs ==
    {Fin(n, 10) : n \in {m \in 0 .. MaxToneTenths : m <= 20 \/ m % 5 = 0}} \cup {Huge}

\* a <= b
ToneLeq(a, b) == b.k = "huge" \/ (a.k = "fin" /\ a.num * b.den <= b.num * a.den)

\* Two channel values a <= b are converted.
ToIntCall ==
    /\ call.pc = "idle"
    /\ \E a \in ToneInputs : \E b \in ToneInputs :
           /\ ToneLeq(a, b)
           /\ \E ra \in ToInt(a) : \E rb \in ToInt(b) :
                  call' = [fn |-> "toInt", pc |-> "done", a |-> a, b |-> b, ra |-> ra, rb |-> rb]
    /\ UNCHANGED <<bvhVars, radVars, frameVars, editorVars>>

(***************************************************************************)
(* Scenes of many scales.  A coordinate is the double m * 2^(-e), held as  *)
(* [m, e] with |m| < 1024; a vertex is three mantissas and one exponent.   *)
(* The arithmetic below is exact while the exponents of the operands of a  *)
(* sum differ by at most 12, which holds in the scenes of SpecDeep.        *)
(***************************************************************************)
Dy(m, e) == [m |-> m, e |-> e]
Sgn(m) == IF m < 0 THEN -1 ELSE IF m > 0 THEN 1 ELSE 0
Coord(v, a) == Dy(v.m[a], v.e)

\* x * p < y * q for x, y > 0 (p and q within a factor 64 of each other)
MagLess(x, p, y, q) ==
    LET g == x.e - y.e
    IN  IF g > 16 THEN TRUE
        ELSE IF g < -16 THEN FALSE
        ELSE ~WideLeq(y.m * 2 ^ IMax(g, 0), q, x.m * 2 ^ IMax(-g, 0), p)

\* a * p < b * q
DLessScaled(a, p, b, q) ==
    IF Sgn(a.m) # Sgn(b.m) \/ a.m = 0 THEN Sgn(a.m) < Sgn(b.m)
    ELSE IF a.m > 0 THEN MagLess(a, p, b, q)
    ELSE MagLess(Dy(-b.m, b.e), q, Dy(-a.m, a.e), p)

DLess(a, b) == DLessScaled(a, 1, b, 1)
DMin(a, b) == IF DLess(b, a) THEN b ELSE a
DMax(a, b) == IF DLess(a, b) THEN b ELSE a
DAdd(a, b) ==
    IF a.m = 0 THEN b
    ELSE IF b.m = 0 THEN a
    ELSE LET e == IMax(a.e, b.e)
         IN  Dy(a.m * 2 ^ (e - a.e) + b.m * 2 ^ (e - b.e), e)
DSub(a, b) == DAdd(a, Dy(-b.m, b.e))
DHalf(a) == Dy(a.m, a.e + 1)

\* double inf = 1e20, as 11 * 2^63.
DInf == Dy(11, -63)

\* The vertex array after the key handler's normalisation (centre 0, scale
\* 1): a point triangle at (-1,-1,-1), one at the origin, and n triangles
\* (1,1,1)s, (1,1/2,1)s, (1/2,1,1)s with s = 1, 1/2, 1/4, ...
DeepVertices(n) ==
    [i \in 1 .. 3 * n + 2 |->
        IF i = 1 THEN [m |-> <<-1, -1, -1>>, e |-> 0]
        ELSE IF i = 2 THEN [m |-> <<0, 0, 0>>, e |-> 0]
        ELSE [m |-> << <<2, 2, 2>>, <<2, 1, 2>>, <<1, 2, 2>> >>[(i % 3) + 1], e |-> ((i - 3) \div 3) + 1]]

DeepFaces(n) ==
    [t \in 0 .. n + 1 |->
        IF t = 0 THEN <<1, 1, 1>>
        ELSE IF t = 1 THEN <<2, 2, 2>>
        ELSE <<3 * t - 3, 3 * t - 2, 3 * t - 1>>]

\* AABB(), expand(p)
DeepEmptyBox ==
    [min |-> <<DInf, DInf, DInf>>,
     max |-> <<Dy(-DInf.m, DInf.e), Dy(-DInf.m, DInf.e), Dy(-DInf.m, DInf.e)>>]

DeepExpand(box, v) ==
    [min |-> <<DMin(box.min[1], Coord(v, 1)), DMin(box.min[2], Coord(v, 2)), DMin(box.min[3], Coord(v, 3))>>,
     max |-> <<DMax(box.max[1], Coord(v, 1)), DMax(box.max[2], Coord(v, 2)), DMax(box.max[3], Coord(v, 3))>>]

\* buildBVHRecursive, step 1: st holds the loop index and the box so far.
RECURSIVE DeepRangeBox(_, _, _, _, _)
DeepRangeBox(vs, fs, tri, right, st) ==
    IF st.i >= right THEN st.box
    ELSE LET f == fs[tri[st.i]]
         IN  DeepRangeBox(vs, fs, tri, right,
                 [i |-> st.i + 1,
                  box |-> DeepExpand(DeepExpand(DeepExpand(st.box, vs[f[1]]), vs[f[2]]), vs[f[3]])])

DeepSplitAxis(box) ==
    LET size == <<DSub(box.max[1], box.min[1]), DSub(box.max[2], box.min[2]), DSub(box.max[3], box.min[3])>>
    IN  IF DLess(size[2], size[1]) THEN (IF DLess(size[3], size[1]) THEN 1 ELSE 3)
        ELSE (IF DLess(size[3], size[2]) THEN 2 ELSE 3)

\* getCentroid(...)[axis] < split: (v0 + v1 + v2) * 0.333333 < min + size * 0.5
DeepCentroidLeftOfSplit(vs, f, axis, box) ==
    LET sum == DAdd(DAdd(Coord(vs[f[1]], axis), Coord(vs[f[2]], axis)), Coord(vs[f[3]], axis))
        split == DAdd(box.min[axis], DHalf(DSub(box.max[axis], box.min[axis])))
    IN  DLessScaled(sum, 333333, split, 1000000)

RECURSIVE DeepPartitionLoop(_, _, _, _, _, _, _, _)
DeepPartitionLoop(vs, fs, tri, i, right, mid, axis, box) ==
    IF i >= right THEN [tri |-> tri, mid |-> mid]
    ELSE IF DeepCentroidLeftOfSplit(vs, fs[tri[i]], axis, box)
         THEN DeepPartitionLoop(vs, fs, Swap(tri, i, mid), i + 1, right, mid + 1, axis, box)
         ELSE DeepPartitionLoop(vs, fs, tri, i + 1, right, mid, axis, box)

\* A distance: the double v / den, den > 0.
DeepT(v, den) == IF den < 0 THEN [v |-> Dy(-v.m, v.e), den |-> -den] ELSE [v |-> v, den |-> den]
TLess(s, t) == DLessScaled(s.v, t.den, t.v, s.den)
TMin(s, t) == IF TLess(t, s) THEN t ELSE s
TMax(s, t) == IF TLess(s, t) THEN t ELSE s

\* (c - o[k]) * inv_d[k] for a ray from the origin with d[k] # 0
DeepSlabT(c, r, k) == DeepT(Dy(c.m * r.dd, c.e), r.dn[k])

\* AABB::intersect(r, t_max)
DeepAABBIntersect(box, r, tMax) ==
    LET lo(k) == TMin(DeepSlabT(box.min[k], r, k), DeepSlabT(box.max[k], r, k))
        hi(k) == TMax(DeepSlabT(box.min[k], r, k), DeepSlabT(box.max[k], r, k))
        tmin == TMax(TMax(lo(1), lo(2)), lo(3))
        tmax == TMin(TMin(hi(1), hi(2)), hi(3))
    IN  ~TLess(tmax, tmin) /\ TLess(tmin, tMax) /\ tmax.v.m > 0

\* intersectTriangle for a ray from the origin: the three vertices share
\* their exponent, so u, v and the determinant are those of the mantissas
\* and t is scaled by 2^(-e).
DeepTriHit(vs, f, r) ==
    LET q == IntersectTriangle(r, vs[f[1]].m, vs[f[2]].m, vs[f[3]].m).t
    IN  DeepT(Dy(q.n, vs[f[1]].e), q.d)

DeepNoHit == [t |-> DeepT(DInf, 1), id |-> 0, hit |-> FALSE, face |-> -1]

DeepTryTriangle(vs, fs, r, idx, best) ==
    LET d == DeepTriHit(vs, fs[idx], r)
    IN  IF d.v.m > 0 /\ TLess(d, best.t) THEN [t |-> d, id |-> 1, hit |-> TRUE, face |-> idx] ELSE best

RECURSIVE DeepLeafLoop(_, _, _, _, _, _, _)
DeepLeafLoop(vs, fs, tri, r, node, i, best) ==
    IF i >= node.triCount THEN best
    ELSE DeepLeafLoop(vs, fs, tri, r, node, i + 1,
             DeepTryTriangle(vs, fs, r, tri[node.firstTriIndex + i], best))

\* Rays from the origin into the positive octant.
DeepRays ==
    {[o |-> <<0, 0, 0>>, dn |-> <<6, 6, 7>>, dd |-> 11], [o |-> <<0, 0, 0>>, dn |-> <<1, 2, 2>>, dd |-> 3]}

\* The sizes of the scenes: the smallest and the largest.
DeepSizes == {n \in 0 .. MaxDeepTris : n < 3 \/ n > MaxDeepTris - 3}

InitDeepScene ==
    /\ \E n \in DeepSizes : faces = DeepFaces(n) /\ sceneVertices = DeepVertices(n)
    /\ triIndices = << >>
    /\ nodes = << >>
    /\ bvhRoot = 0
    /\ bpc = "scene"
    /\ isect = NoQuery
    /\ g_pathTracingMode = g_renderMesh
    /\ mesh = << >>
    /\ meshVertices = << >>
    /\ freed = {}
    /\ toggles = 0

\* One activation of buildBVHRecursive(scene, left, right): the node it
\* allocated, its mid, and where it stands ("enter", or waiting for its
\* "left" or "right" recursive call).
Activation(left, right) == [left |-> left, right |-> right, node |-> 0, mid |-> 0, pc |-> "enter"]

Top(frames) == frames[Len(frames)]
Pop(frames) == SubSeq(frames, 1, Len(frames) - 1)

\* buildBVH(scene): the index array 0..n-1 and the call for the whole range.
DeepBuildBVH ==
    /\ bpc = "scene"
    /\ LET n == Cardinality(DOMAIN faces)
       IN  IF BuildSkips(n)
           THEN bpc' = "built" /\ UNCHANGED <<triIndices, call>>
           ELSE /\ triIndices' = [i \in 0 .. n - 1 |-> i]
                /\ call' = [fn |-> "buildBVHRecursive", pc |-> "run",
                            frames |-> <<Activation(0, n)>>, ret |-> 0]
                /\ bpc' = "building"
    /\ UNCHANGED <<faces, nodes, bvhRoot, isect>>
    /\ UNCHANGED <<radVars, frameVars, editorVars>>

\* buildBVHRecursive up to its first recursive call, or to its return when
\* the range is a leaf.
DeepBuildEnter ==
    /\ bpc = "building"
    /\ call.frames # << >>
    /\ Top(call.frames).pc = "enter"
    /\ LET a == Top(call.frames)
           me == Len(nodes) + 1
           box == DeepRangeBox(sceneVertices, faces, triIndices, a.right, [i |-> a.left, box |-> DeepEmptyBox])
           count == a.right - a.left
       IN  IF IsLeafCount(count)
           THEN /\ nodes' = Append(nodes, [NewNode(box) EXCEPT !.firstTriIndex = a.left, !.triCount = count])
                /\ call' = [call EXCEPT !.frames = Pop(@), !.ret = me]
                /\ UNCHANGED triIndices
           ELSE LET axis == DeepSplitAxis(box)
                    part == DeepPartitionLoop(sceneVertices, faces, triIndices, a.left, a.right, a.left, axis, box)
                    mid == FixMid(part.mid, a.left, a.right)
                IN  /\ nodes' = Append(nodes, NewNode(box))
                    /\ triIndices' = part.tri
                    /\ call' = [call EXCEPT !.frames =
                           Append(Append(Pop(@), [a EXCEPT !.node = me, !.mid = mid, !.pc = "left"]),
                                  Activation(a.left, mid))]
    /\ UNCHANGED <<faces, bvhRoot, bpc, isect>>
    /\ UNCHANGED <<radVars, frameVars, editorVars>>

\* node->left = (the value returned); then the second recursive call.
DeepBuildLeftDone ==
    /\ bpc = "building"
    /\ call.frames # << >>
    /\ Top(call.frames).pc = "left"
    /\ LET a == Top(call.frames)
       IN  /\ nodes' = [nodes EXCEPT ![a.node].left = call.ret]
           /\ call' = [call EXCEPT !.ret = 0, !.frames =
                  Append(Append(Pop(@), [a EXCEPT !.pc = "right"]), Activation(a.mid, a.right))]
    /\ UNCHANGED <<faces, triIndices, bvhRoot, bpc, isect>>
    /\ UNCHANGED <<radVars, frameVars, editorVars>>

\* node->right = (the value returned); return node.
DeepBuildRightDone ==
    /\ bpc = "building"
    /\ call.frames # << >>
    /\ Top(call.frames).pc = "right"
    /\ LET a == Top(call.frames)
       IN  /\ nodes' = [nodes EXCEPT ![a.node].right = call.ret]
           /\ call' = [call EXCEPT !.ret = a.node, !.frames = Pop(@)]
    /\ UNCHANGED <<faces, triIndices, bvhRoot, bpc, isect>>
    /\ UNCHANGED <<radVars, frameVars, editorVars>>

\* scene.bvhRoot = buildBVHRecursive(scene, 0, n)
DeepBuildReturn ==
    /\ bpc = "building"
    /\ call.frames = << >>
    /\ bvhRoot' = call.ret
    /\ bpc' = "built"
    /\ call' = NoCall
    /\ UNCHANGED <<faces, triIndices, nodes, isect>>
    /\ UNCHANGED <<radVars, frameVars, editorVars>>

\* getIntersection up to its while loop: stack[stackPtr++] = bvhRoot.
DeepIntersectBegin ==
    /\ bpc = "built"
    /\ isect = NoQuery
    /\ \E r \in DeepRays :
           isect' = [valid |-> FALSE, pc |-> "loop", ray |-> r, best |-> DeepNoHit,
                     stack |-> IF RootUsable(bvhRoot) THEN <<bvhRoot>> ELSE << >>]
    /\ UNCHANGED <<faces, triIndices, nodes, bvhRoot, bpc>>
    /\ UNCHANGED <<radVars, frameVars, editorVars, callVars>>

\* One turn of the while loop.  A push at stackPtr = 64 writes past the end
\* of stack[64]: the call then either faults or goes on, the write landed
\* in the neighbouring memory.
DeepIntersectTurn ==
    /\ "pc" \in DOMAIN isect
    /\ isect.pc = "loop"
    /\ isect.stack # << >>
    /\ LET node == nodes[Top(isect.stack)]
           rest == Pop(isect.stack)
       IN  IF ~DeepAABBIntersect(node.box, isect.ray, isect.best.t)
           THEN isect' = [isect EXCEPT !.stack = rest]
           ELSE IF node.triCount > 0
           THEN isect' = [isect EXCEPT !.stack = rest,
                    !.best = DeepLeafLoop(sceneVertices, faces, triIndices, isect.ray, node, 0, isect.best)]
           ELSE LET st == PushChildren(rest, node, TRUE)
                IN  \E pc \in (IF Len(st) > StackCap THEN {"fault", "loop"} ELSE {"loop"}) :
                        isect' = [isect EXCEPT !.stack = st, !.pc = pc]
    /\ UNCHANGED <<faces, triIndices, nodes, bvhRoot, bpc>>
    /\ UNCHANGED <<radVars, frameVars, editorVars, callVars>>

\* After the loop: the ground, the light, return.
DeepIntersectEnd ==
    /\ "pc" \in DOMAIN isect
    /\ isect.pc = "loop"
    /\ isect.stack = << >>
    /\ isect' = [isect EXCEPT !.valid = TRUE, !.pc = "done",
                     !.best = LightTest(isect.ray, GroundTest(isect.ray, isect.best))]
    /\ UNCHANGED <<faces, triIndices, nodes, bvhRoot, bpc>>
    /\ UNCHANGED <<radVars, frameVars, editorVars, callVars>>

(***************************************************************************)
(* Specifications                                                          *)
(***************************************************************************)
vars == <<bvhVars, radVars, frameVars, editorVars, callVars>>

NoScene ==
    /\ faces = << >> /\ triIndices = << >> /\ nodes = << >> /\ bvhRoot = 0
    /\ bpc = "built" /\ isect = NoQuery

InitBuild == InitScene(MaxTris) /\ InitRad /\ IdleFrame /\ IdleEditor /\ IdleCall
NextBuild == BuildBVH
SpecBuild == InitBuild /\ [][NextBuild]_vars

InitBVH == InitScene(MaxRayTris) /\ InitRad /\ IdleFrame /\ IdleEditor /\ IdleCall
NextBVH == BuildBVH \/ Intersect \/ NextRay
SpecBVH == InitBVH /\ [][NextBVH]_vars

\* radiance runs on a built scene; which scene does not enter its steps.
InitRadiance == NoScene /\ InitRad /\ IdleFrame /\ IdleEditor /\ IdleCall
NextRadiance == RadCall \/ RadMiss \/ RadLight \/ RadBounce \/ RadLoopEnd \/ RadReturn
SpecRadiance == InitRadiance /\ [][NextRadiance]_vars

\* The frame driver, render mode being on.
InitDriver == NoScene /\ InitRad /\ InitFrame /\ IdleEditor /\ IdleCall
NextDriver == CameraInput \/ FrameBegin \/ Row \/ FrameEnd
SpecFrame == InitDriver /\ [][NextDriver]_vars

\* The editor with the 'p' key, from program start.
InitEditing == NoScene /\ InitRad /\ IdleFrame /\ InitEditor /\ IdleCall
NextEditing == EditCreate \/ EditDeleteFace \/ EditDeleteAll \/ ToggleOn \/ ToggleOff
SpecEditor == InitEditing /\ [][NextEditing]_vars

\* Calls of sampleTexture.
InitTexture == NoScene /\ InitRad /\ IdleFrame /\ IdleEditor /\ IdleCall
NextTexture == SampleTextureCall \/ CallReturn
SpecTexture == InitTexture /\ [][NextTexture]_vars

\* The render-to-file mode.
InitOffline == NoScene /\ InitRad /\ IdleFrame /\ IdleEditor /\ IdleCall
NextOffline == OfflineStart \/ OfflineRead \/ OfflineNormalise \/ OfflineRender \/ CallReturn
SpecOffline == InitOffline /\ [][NextOffline]_vars

\* Scenes of many scales are built and traversed.
InitDeep == IdleFrame /\ InitDeepScene /\ InitRad /\ IdleCall
NextDeep ==
    \/ DeepBuildBVH \/ DeepBuildEnter \/ DeepBuildLeftDone \/ DeepBuildRightDone \/ DeepBuildReturn
    \/ DeepIntersectBegin \/ DeepIntersectTurn \/ DeepIntersectEnd \/ NextRay
SpecDeep == InitDeep /\ [][NextDeep]_vars

\* Calls of toInt.
InitToneMap == NoScene /\ InitRad /\ IdleFrame /\ IdleEditor /\ IdleCall
NextToneMap == ToIntCall \/ CallReturn
SpecToneMap == InitToneMap /\ [][NextToneMap]_vars

(***************************************************************************)
(* Reading a built tree.                                                   *)
(***************************************************************************)
RECURSIVE Subtree(_)
Subtree(k) == IF k = 0 THEN {} ELSE {k} \cup Subtree(nodes[k].left) \cup Subtree(nodes[k].right)

IsInterior(k) == nodes[k].left # 0 \/ nodes[k].right # 0
LeafNodes == {k \in Subtree(bvhRoot) : ~IsInterior(k)}
LeafRange(k) == nodes[k].firstTriIndex .. (nodes[k].firstTriIndex + nodes[k].triCount - 1)

RECURSIVE NodeRange(_)
NodeRange(k) == IF k = 0 THEN {} ELSE IF IsInterior(k) THEN NodeRange(nodes[k].left) \cup NodeRange(nodes[k].right) ELSE LeafRange(k)

\* The triangles of node k's range that the partition loop of the node
\* moves to the left of mid.
LeftOfSplit(k) ==
    {i \in NodeRange(k) :
        CentroidLeftOfSplit(faces[triIndices[i]], SplitAxis(nodes[k].box), nodes[k].box)}

\* The partition loop of node k ended with mid == left or mid == right.
OneSideEmpty(k) == LeftOfSplit(k) = {} \/ LeftOfSplit(k) = NodeRange(k)

BoxInBox(inner, outer) ==
    \A a \in 1 .. 3 : outer.min[a] <= inner.min[a] /\ inner.max[a] <= outer.max[a]
PointInBox(p, box) == \A a \in 1 .. 3 : box.min[a] <= p[a] /\ p[a] <= box.max[a]

\* The brute-force test: every triangle in index order with the same
\* acceptance rule as the leaf loop, then the ground, then the light.
RECURSIVE BruteMesh(_, _, _, _)
BruteMesh(fs, r, idx, best) ==
    IF idx >= Cardinality(DOMAIN fs) THEN best
    ELSE BruteMesh(fs, r, idx + 1, TryTriangle(fs, r, idx, best))

BruteForce(fs, r) == LightTest(r, GroundTest(r, BruteMesh(fs, r, 0, NoHit)))

(***************************************************************************)
(* Claims                                                                  *)
(***************************************************************************)

\* C1: after buildBVH on a non-empty triangle list, triIndices is a
\* permutation of 0..n-1 and the leaf ranges of the tree are pairwise
\* disjoint and cover [0, n): every position, hence every triangle, lies in
\* exactly one leaf.
C1_LeavesPartitionTriangles ==
    (bpc = "built" /\ NumFaces > 0) =>
        /\ bvhRoot # 0
        /\ DOMAIN triIndices = 0 .. NumFaces - 1
        /\ \A t \in 0 .. NumFaces - 1 :
               Cardinality({i \in 0 .. NumFaces - 1 : triIndices[i] = t}) = 1
        /\ \A k \in LeafNodes : LeafRange(k) \subseteq 0 .. NumFaces - 1
        /\ \A i \in 0 .. NumFaces - 1 :
               Cardinality({k \in LeafNodes : i \in LeafRange(k)}) = 1

\* A tree with at least three leaves, the partition loop having reordered
\* the index array.
C1_Witness ==
    /\ bpc = "built"
    /\ Cardinality(LeafNodes) >= 3
    /\ \E i \in DOMAIN triIndices : triIndices[i] # i

\* C2: in a built tree every interior node's box contains the boxes of both
\* children, and every node's box contains all the vertices of every triangle in
\* the node's range.
C2_BoxesContain ==
    bpc = "built" =>
        \A k \in Subtree(bvhRoot) :
            /\ IsInterior(k) =>
                   /\ nodes[k].left # 0 /\ nodes[k].right # 0
                   /\ BoxInBox(nodes[nodes[k].left].box, nodes[k].box)
                   /\ BoxInBox(nodes[nodes[k].right].box, nodes[k].box)
            /\ \A i \in NodeRange(k) : \A c \in 1 .. 3 :
                   PointInBox(Vtx(faces[triIndices[i]], c), nodes[k].box)

\* A tree with an interior node whose child's box is strictly smaller.
C2_Witness ==
    /\ bpc = "built"
    /\ \E k \in Subtree(bvhRoot) :
           /\ IsInterior(k)
           /\ nodes[nodes[k].left].box # nodes[k].box
           /\ nodes[nodes[k].right].box # nodes[k].box

\* C3: getIntersection returns the nearest hit distance and the tag of a
\* brute-force test of all triangles, the ground and the light.
C3_TraversalEqualsBruteForce ==
    isect.valid =>
        LET bf == BruteForce(faces, isect.ray)
        IN  QEq(isect.best.t, bf.t) /\ isect.best.id = bf.id

\* C4: with no triangles buildBVH leaves the root null, and a query then
\* dereferences no node and yields the ground, the light or a miss.
C4_EmptySceneNeverMeshHit ==
    (bpc = "built" /\ NumFaces = 0) =>
        /\ bvhRoot = 0
        /\ nodes = << >>
        /\ isect.valid => (isect.visited = << >> /\ isect.best.id \in {0, 2, 3} /\ isect.best.face = -1)

\* Queries on the empty scene that hit the ground.
C4_Witness ==
    /\ bpc = "built" /\ NumFaces = 0
    /\ isect.valid /\ isect.best.id = 2

\* C5: a call of radiance runs at most 5 iterations of the bounce loop, each
\* iteration advancing depth by one, and so issues at most 5 primary and 5
\* shadow intersection queries.
C5_AtMostFiveBounces ==
    /\ rad.iters <= 5 /\ rad.primary <= 5 /\ rad.shadow <= 5
    /\ rad.primary = rad.iters /\ rad.shadow <= rad.primary
    /\ rad.pc = "loop" => (rad.depth = rad.iters /\ rad.depth <= 5)
    /\ rad.pc = "done" => rad.exit \in {"miss", "light", "roulette", "depth"}

\* A path that ran all five iterations, with five shadow rays.
C5_Witness ==
    rad.pc = "done" /\ rad.exit = "depth" /\ rad.iters = 5 /\ rad.shadow = 5

\* C6: the light's emission is part of the result only when the light is hit
\* at depth 0; a hit on the light at a depth above 0 returns exactly the
\* radiance accumulated so far.
C6_EmissionOnlyAtDepthZero ==
    /\ \A i \in DOMAIN rad.finalColor : rad.finalColor[i].kind = "nee"
    /\ rad.pc = "done" =>
           /\ (rad.exit = "light" /\ rad.depth > 0) => rad.result = rad.finalColor
           /\ (rad.exit = "light" /\ rad.depth = 0) =>
                  rad.result = <<Term("emission", 0, << >>, White)>>
           /\ \A i \in DOMAIN rad.result :
                  rad.result[i].kind = "emission" => (rad.exit = "light" /\ rad.depth = 0)

\* The light is hit at a later bounce, direct light having been added before.
C6_Witness ==
    rad.pc = "done" /\ rad.exit = "light" /\ rad.depth > 0 /\ rad.finalColor # << >>

(***************************************************************************)
(* Reading the frame driver's state.                                       *)
(***************************************************************************)
InFrame == fpc = "rows" \/ fpc = "shown"
Pixels == DOMAIN g_accumBuffer
Columns == 0 .. g_winWidth - 1
Lines == 0 .. g_winHeight - 1
\* The estimates a slot holds, and how many times copies included.
Estimates(i) == BagToSet(g_accumBuffer[i])
Copies(i) == BagCardinality(g_accumBuffer[i])

\* C7: in a frame whose camera differs from the camera the previous frame
\* saw, the parallel loop starts from an all-zero accumulation buffer and the
\* sample counter is 1, and when the frame ends every slot is empty or holds
\* one estimate, taken with the camera of the frame.
C7_CameraChangeResets ==
    (InFrame /\ frame.changed) =>
        /\ g_ptSamples = 1
        /\ \A i \in Pixels : frame.acc0[i] = EmptyBag
        /\ \A i \in Pixels : Copies(i) <= 1 /\ \A e \in Estimates(i) : e.cam = frame.seenCam

\* A frame after a camera change has ended, and before the change the
\* buffers held the estimates of another viewpoint.
C7_Witness ==
    /\ fpc = "shown" /\ frame.changed
    /\ \E i \in Pixels : \E e \in BagToSet(frame.pix0[i].acc) : e.cam # frame.seenCam
    /\ \E i \in Pixels : Copies(i) = 1

\* C8 (as stated): after every frame each pixel of the display buffer is the
\* tone-mapped quotient of the pixel's own accumulation slot by the counter.
C8_DisplayIsOwnSlot ==
    fpc = "shown" =>
        \A i \in Pixels :
            g_pixelBuffer[i] = IF g_accumBuffer[i] = EmptyBag THEN Black
                               ELSE [acc |-> g_accumBuffer[i], n |-> g_ptSamples]

\* C8 (amended): after every frame each pixel of the display buffer is the
\* tone-mapped quotient, by the counter, of the slot of the sampled pixel of
\* its block: x and y rounded down to multiples of the frame's stride.
C8_DisplayIsBlockSlot ==
    fpc = "shown" =>
        \A x \in Columns : \A y \in Lines :
            LET ax == x - (x % frame.step)
                ay == y - (y % frame.step)
            IN  g_pixelBuffer[(g_winHeight - 1 - y) * g_winWidth + x] =
                    [acc |-> g_accumBuffer[(g_winHeight - 1 - ay) * g_winWidth + ax],
                     n |-> g_ptSamples]

\* A coarse frame has ended on a window of several pixels: a pixel that was
\* not sampled shows the colour of its block while its own slot is zero.
C8_Witness ==
    /\ fpc = "shown" /\ frame.step = CoarseStep /\ g_winWidth * g_winHeight > 1
    /\ \E i \in Pixels : g_accumBuffer[i] = EmptyBag /\ g_pixelBuffer[i] # Black

\* C9: after every frame each slot holds as many estimates as frames were
\* rendered since the last reset, one of each.
C9_EverySlotSumsOnePerFrame ==
    fpc = "shown" =>
        \A i \in Pixels :
            /\ Copies(i) = g_ptSamples
            /\ \A e \in Estimates(i) : CopiesIn(e, g_accumBuffer[i]) = 1

\* C10: when a frame ends, both buffers are what the rows of the frame, run
\* one after the other in ascending order from the state the loop started
\* in, leave behind.
C10_RowOrderIrrelevant ==
    fpc = "shown" =>
        LET r == SequentialRows(RowsOf(frame.step, g_winHeight), frame.acc0, frame.pix0,
                                frame.step, g_ptSamples, frame.seenCam,
                                <<g_winWidth, g_winHeight>>)
        IN  g_accumBuffer = r.acc /\ g_pixelBuffer = r.pix

\* A coarse frame of two sampled rows has ended, the two rows having left
\* different colours.
C10_Witness ==
    /\ fpc = "shown" /\ g_winHeight = 7 /\ frame.step = CoarseStep
    /\ g_pixelBuffer[0] # g_pixelBuffer[g_winWidth * (g_winHeight - 1)]

\* C11: within a frame no accumulation slot and no display byte is written
\* by two iterations of the row loop, and while the loop runs the sample
\* counter, the camera, the statics and the window size stay what they were
\* when it started.
C11_RowsWriteDisjoint ==
    InFrame =>
        /\ \A a \in frame.slotWrites : \A b \in frame.slotWrites : a[2] = b[2] => a[1] = b[1]
        /\ \A a \in frame.byteWrites : \A b \in frame.byteWrites : a[2] = b[2] => a[1] = b[1]
        /\ fpc = "rows" => /\ g_ptSamples = frame.samples
                           /\ cam = frame.seenCam
                           /\ last_cam = frame.seenCam
                           /\ DOMAIN g_accumBuffer = 0 .. g_winWidth * g_winHeight - 1

\* Two iterations of a coarse frame have written slots and display bytes.
C11_Witness ==
    /\ fpc = "rows" /\ frame.step = CoarseStep
    /\ \E a \in frame.byteWrites : \E b \in frame.byteWrites : a[1] # b[1]
    /\ \E a \in frame.slotWrites : \E b \in frame.slotWrites : a[1] # b[1]

\* C12: every index a frame writes lies inside its buffer, and when the
\* frame ends every byte of the display buffer has been written.
C12_FrameCoversDisplay ==
    InFrame =>
        /\ \A a \in frame.slotWrites : a[2] \in 0 .. g_winWidth * g_winHeight - 1
        /\ \A a \in frame.byteWrites : a[2] \in 0 .. 3 * g_winWidth * g_winHeight - 1
        /\ fpc = "shown" =>
               {a[2] : a \in frame.byteWrites} = 0 .. 3 * g_winWidth * g_winHeight - 1

\* A coarse frame has ended on a window whose last blocks are clipped at the
\* right and at the bottom.
C12_Witness ==
    /\ fpc = "shown" /\ frame.step = CoarseStep
    /\ g_winWidth % CoarseStep # 0 /\ g_winHeight % CoarseStep # 0
    /\ g_winWidth > CoarseStep

(***************************************************************************)
(* Reading the scene the key handler built.                                *)
(***************************************************************************)
\* The nodes on the heap: allocated and not deleted.
Allocated == DOMAIN nodes \ freed
\* What the renderer reads through g_renderMesh.
SceneNow ==
    <<sceneVertices, faces, triIndices, bvhRoot, [k \in Subtree(bvhRoot) |-> nodes[k]]>>

\* C13: when render mode is switched on, the triangles of the scene are the
\* fans of the editor's faces: for a face f of n vertices the n-2 triangles
\* (f[1], f[k+1], f[k+2]), and nothing else.
C13_EveryFaceTriangulated ==
    [][(~g_pathTracingMode /\ g_pathTracingMode') =>
           /\ \A i \in 1 .. Len(mesh) : \A k \in 1 .. Len(mesh[i]) - 2 :
                  \E j \in DOMAIN faces' :
                      faces'[j] = <<mesh[i][1], mesh[i][k + 1], mesh[i][k + 2]>>
           /\ \A j \in DOMAIN faces' :
                  \E i \in 1 .. Len(mesh) : \E k \in 1 .. Len(mesh[i]) - 2 :
                      faces'[j] = <<mesh[i][1], mesh[i][k + 1], mesh[i][k + 2]>>]_vars

\* C14: every node on the heap is reachable from the scene's root.
C14_NoNodeLeftAllocated == Allocated \subseteq Subtree(bvhRoot)

\* C15: a step that changes what the renderer reads is a switch-on of render
\* mode, and leaves the normalised vertices of the editor, the triangles of
\* its faces and a tree of newly allocated nodes.
C15_SceneIsSnapshot ==
    [][SceneNow' # SceneNow =>
           /\ ~g_pathTracingMode /\ g_pathTracingMode'
           /\ sceneVertices' = Vertices
           /\ sceneVertices' = Normalise(meshVertices)
           /\ faces' = FromZero(TriangulateLoop(mesh, 1, << >>))
           /\ triIndices' # << >> => DOMAIN triIndices' = DOMAIN faces'
           /\ (Subtree(bvhRoot))' \cap DOMAIN nodes = {}]_vars

\* Render mode is on for the second time, over a scene of several nodes, and
\* the mesh has been edited since: its triangles are not the scene's.
C15_Witness ==
    /\ g_pathTracingMode /\ toggles = 3 /\ freed # {}
    /\ Cardinality(Subtree(bvhRoot)) >= 3
    /\ faces # FromZero(TriangulateLoop(mesh, 1, << >>))

\* C16: for every factor f/p a survived roulette has put into the
\* throughput, the survival probability times f/p is the albedo f, channel
\* by channel (all three in tenths: P * f = f * p).
C16_RouletteKeepsExpectation ==
    \A k \in DOMAIN rad.throughput :
        RoulettePlayed(k - 1) =>
            \A c \in 1 .. 3 :
                SurvivalProbability(rad.throughput[k].den) * rad.throughput[k].num[c]
                    = rad.throughput[k].num[c] * rad.throughput[k].den

\* C17: a call of sampleTexture on an empty texture returns the sentinel
\* and reads nothing; on a w x h texture the texels read have x in 0..w-1
\* and y in 0..h-1, the floats read lie in the pixel vector, and the weights
\* dx, dy lie in [0, 1] (0..16 sixteenths).
C17_SampleTextureInBounds ==
    (call.fn = "sampleTexture" /\ call.pc = "done") =>
        /\ call.w * call.h = 0 => call.out.sentinel /\ call.out.reads = {}
        /\ call.w * call.h > 0 =>
               /\ ~call.out.sentinel
               /\ \A t \in call.out.texels : t[1] \in 0 .. call.w - 1 /\ t[2] \in 0 .. call.h - 1
               /\ call.out.reads \subseteq 0 .. 3 * call.w * call.h - 1
               /\ call.out.dx \in 0 .. 16 /\ call.out.dy \in 0 .. 16

\* A sample whose u has rounded to 1.0 and whose v is negative: the right
\* neighbour lies past the last column before the clamp.
C17_Witness ==
    /\ call.fn = "sampleTexture" /\ call.pc = "done"
    /\ call.w = 2 /\ call.h = 2
    /\ Tile(call.u) = 8 /\ call.v.n < 0
    /\ Cardinality(call.out.reads) >= 3

\* C18: when the render-to-file mode has run to its end the output file
\* exists and starts with the tokens P3, width, height, 255, followed by
\* three integers per pixel.
C18_OfflineWritesPixelMap ==
    (call.fn = "runPathTracingMode" /\ call.pc = "done") =>
        /\ call.file.exists
        /\ Len(call.file.tokens) >= 4
        /\ call.file.tokens[1] = "P3"
        /\ call.file.tokens[4] = 255
        /\ Len(call.file.tokens) = 4 + 3 * call.file.tokens[2] * call.file.tokens[3]

\* C19: toInt(0) = 0, and for inputs 0 <= a <= b the results satisfy
\* toInt(a) <= toInt(b) and both lie in 0..255.
C19_ToIntMonotoneByte ==
    (call.fn = "toInt" /\ call.pc = "done") =>
        /\ call.a.k = "fin" /\ call.a.num = 0 => call.ra = 0
        /\ call.ra <= call.rb
        /\ call.ra \in 0 .. 255 /\ call.rb \in 0 .. 255

\* C20: buildBVHRecursive returns a finite tree in which every node built
\* from more than 2 triangles has two children whose ranges are non-empty,
\* adjacent and strictly smaller than the node's; when the midpoint
\* partition leaves one side empty the left child takes count/2 triangles;
\* every leaf holds 1 or 2 triangles.
C20_SplitsShrink ==
    (bpc = "built" /\ NumFaces > 0) =>
        \A k \in Subtree(bvhRoot) :
            LET count == Cardinality(NodeRange(k))
                l == NodeRange(nodes[k].left)
                r == NodeRange(nodes[k].right)
            IN  IF IsInterior(k)
                THEN /\ count > 2
                     /\ nodes[k].left # 0 /\ nodes[k].right # 0
                     /\ l # {} /\ r # {}
                     /\ Cardinality(l) < count /\ Cardinality(r) < count
                     /\ Cardinality(l) + Cardinality(r) = count
                     /\ \A i \in l : \A j \in r : i < j
                     /\ OneSideEmpty(k) => Cardinality(l) = count \div 2
                     /\ ~OneSideEmpty(k) => Cardinality(l) = Cardinality(LeftOfSplit(k))
                ELSE nodes[k].triCount \in {1, 2}

\* A range of four triangles whose centroids all lie on one side of the
\* midpoint: the fallback halves it.
C20_Witness ==
    /\ bpc = "built"
    /\ \E k \in Subtree(bvhRoot) :
           /\ IsInterior(k)
           /\ Cardinality(NodeRange(k)) = 4
           /\ OneSideEmpty(k)
           /\ Cardinality(NodeRange(nodes[k].left)) = 2

\* C21: during a traversal by getIntersection the number of node pointers
\* on the stack never exceeds the capacity of 64.
C21_StackWithinCapacity ==
    ("stack" \in DOMAIN isect) => Len(isect.stack) <= StackCap

\* C22: a bounce on the mesh or the ground casts exactly one shadow ray,
\* first; then plays the roulette only when depth > 2; then multiplies the
\* throughput; then draws the new ray.  The bounce in which the roulette
\* ends the path has cast its shadow ray, and no path ends by roulette at
\* depth 0, 1 or 2.
C22_BounceOrder ==
    /\ rad.steps # << >> =>
           LET at == IF rad.exit = "roulette" THEN rad.depth ELSE rad.depth - 1
           IN  /\ at <= 2 => rad.steps = <<"shadow", "throughput", "ray">>
               /\ at > 2 => rad.steps \in {<<"shadow", "roulette", "throughput", "ray">>,
                                           <<"shadow", "roulette">>}
               /\ rad.steps = <<"shadow", "roulette">> <=> (rad.pc = "done" /\ rad.exit = "roulette")
    /\ (rad.pc = "done" /\ rad.exit = "roulette") =>
           /\ rad.depth > 2
           /\ rad.steps = <<"shadow", "roulette">>
           /\ rad.shadow = rad.iters /\ rad.shadow = rad.depth + 1
           /\ Len(rad.throughput) = rad.depth

\* The roulette ends a path at depth 3, in the fourth bounce, after its
\* shadow ray.
C22_Witness ==
    rad.pc = "done" /\ rad.exit = "roulette" /\ rad.depth = 3 /\ rad.shadow = 4

\* C23: a bounce adds a direct-light term to the accumulated radiance only
\* if its shadow ray reported the light, within the distance tolerance, as
\* the nearest hit and the cosine was positive; then it adds exactly one
\* term; after a miss, a triangle, the ground or the light beyond the
\* tolerance the accumulated radiance is unchanged.
C23_DirectLightOnlyIfVisible ==
    [][(rad.pc = "loop" /\ rad'.shadow = rad.shadow + 1) =>
           IF rad'.nee.shadow = "light" /\ rad'.nee.cosPositive
           THEN /\ Len(rad'.finalColor) = Len(rad.finalColor) + 1
                /\ SubSeq(rad'.finalColor, 1, Len(rad.finalColor)) = rad.finalColor
                /\ rad'.finalColor[Len(rad'.finalColor)].kind = "nee"
                /\ rad'.finalColor[Len(rad'.finalColor)].depth = rad.depth
                /\ rad'.finalColor[Len(rad'.finalColor)].tp = rad.throughput
           ELSE rad'.finalColor = rad.finalColor]_vars

\* A path with a bounce whose shadow ray was blocked by the mesh, after a
\* bounce that added direct light.
C23_Witness ==
    /\ rad.pc = "loop"
    /\ rad.nee.shadow = "mesh"
    /\ Len(rad.finalColor) = 1 /\ rad.shadow = 2

(***************************************************************************)
(* C24: in every frame the stride is 6 when the sample counter, as it      *)
(* stands after g_ptSamples++, is 1, 2, 3 or 4 (the first four frames      *)
(* after a reset) and 1 when it is 5 or more; a frame that found the       *)
(* camera changed is the first frame after a reset (counter 1), so its     *)
(* stride is 6.                                                            *)
(***************************************************************************)
C24_CoarseFirstFourFrames ==
    fpc \in {"rows", "shown"} =>
        /\ frame.samples = g_ptSamples
        /\ frame.samples >= 1
        /\ (frame.step = 6) = (frame.samples \in 1 .. 4)
        /\ (frame.step = 1) = (frame.samples >= 5)
        /\ frame.isMoving => (frame.samples = 1 /\ frame.step = 6)

\* The fifth frame after a reset has been drawn at full resolution, the
\* camera having moved earlier in the session.
C24_Witness ==
    /\ fpc = "shown"
    /\ frame.samples = 5 /\ frame.step = 1
    /\ moves > 0 /\ ~frame.isMoving

(***************************************************************************)
(* C25: the estimate a frame takes for a pixel starts from a seed that is  *)
(* a function of the pixel's row and of the sample count alone, the value  *)
(* (y * 91214) + (g_ptSamples * 71932), whatever the camera and whatever   *)
(* the pixels before it in the row have drawn.                             *)
(***************************************************************************)
C25_PixelSeedFromRowAndCount ==
    InFrame =>
        \A y \in RowsOf(frame.step, g_winHeight) \ frame.todo :
            \A x \in ColumnsOf(frame.step, g_winWidth) :
                \E e \in Estimates(PixelIndex(x, y, g_winWidth, g_winHeight)) :
                    e.x = x /\ e.y = y /\ e.seed = RowSeed(y, g_ptSamples)

(***************************************************************************)
(* Calls of intersectTriangle: any ray of the catalogue against any three  *)
(* vertices of the catalogue, equal and collinear ones included.           *)
(***************************************************************************)
IntersectTriangleCall ==
    /\ call.pc = "idle"
    /\ \E o \in RayOrigins : \E d \in RayDirs : \E f \in [1 .. 3 -> DOMAIN Vertices] :
           LET r == [o |-> o, dn |-> d.dn, dd |-> d.dd]
           IN  call' = [fn |-> "intersectTriangle", pc |-> "done", r |-> r,
                        v0 |-> Vtx(f, 1), v1 |-> Vtx(f, 2), v2 |-> Vtx(f, 3),
                        out |-> IntersectTriangle(r, Vtx(f, 1), Vtx(f, 2), Vtx(f, 3))]
    /\ UNCHANGED <<bvhVars, radVars, frameVars, editorVars>>

InitTriangle == NoScene /\ InitRad /\ IdleFrame /\ IdleEditor /\ IdleCall
NextTriangle == IntersectTriangleCall \/ CallReturn
SpecTriangle == InitTriangle /\ [][NextTriangle]_vars

\* The triangle's two edges are parallel or one is null: duplicate or
\* collinear vertices.
Degenerate(v0, v1, v2) == Cross(VSub(v1, v0), VSub(v2, v0)) = <<0, 0, 0>>

\* The determinant and the numerators of u, v and t (t in units of 1/dd) of
\* the call, as triple products.
CallDet == Dot(VSub(call.v1, call.v0), Cross(call.r.dn, VSub(call.v2, call.v0)))
CallU == Dot(VSub(call.r.o, call.v0), Cross(call.r.dn, VSub(call.v2, call.v0)))
CallV == Dot(call.r.dn, Cross(VSub(call.r.o, call.v0), VSub(call.v1, call.v0)))
CallT == Dot(VSub(call.v2, call.v0), Cross(VSub(call.r.o, call.v0), VSub(call.v1, call.v0)))

\* The acceptance conditions on u = CallU / CallDet, v = CallV / CallDet and
\* t = CallT / CallDet.
Accepted ==
    /\ CallDet # 0
    /\ CallU * CallDet >= 0 /\ CallU * CallDet <= CallDet * CallDet
    /\ CallV * CallDet >= 0 /\ (CallU + CallV) * CallDet <= CallDet * CallDet
    /\ CallT * CallDet > 0

\* C26: intersectTriangle returns a positive distance exactly when the
\* determinant is not (near) zero, u is in [0, 1], v >= 0, u + v <= 1 and
\* t > 0, the distance then being t and the point o + t d being
\* v0 + u e1 + v e2; in every other case it returns 0, and it returns 0 for
\* every triangle with duplicate or collinear vertices.
C26_TriangleAcceptance ==
    (call.fn = "intersectTriangle" /\ call.pc = "done") =>
        /\ QPos(call.out.t) = Accepted
        /\ ~Accepted => call.out.t = QZero
        /\ Accepted =>
               /\ call.out.t = QFrac(call.r.dd * CallT, CallDet)
               /\ \A k \in 1 .. 3 :
                      CallDet * (call.r.o[k] - call.v0[k]) + CallT * call.r.dn[k]
                          = CallU * (call.v1[k] - call.v0[k]) + CallV * (call.v2[k] - call.v0[k])
        /\ Degenerate(call.v0, call.v1, call.v2) => call.out.t = QZero

\* A ray has been tested against three collinear, pairwise different
\* vertices and rejected.
C26_Witness ==
    /\ call.fn = "intersectTriangle" /\ call.pc = "done"
    /\ Degenerate(call.v0, call.v1, call.v2)
    /\ call.v0 # call.v1 /\ call.v1 # call.v2 /\ call.v0 # call.v2
    /\ call.out.t = QZero

(***************************************************************************)
(* Sessions of render mode: from program start the 'p' key switches the    *)
(* mode on and off between frames, the camera moves and frames are drawn   *)
(* while the mode is on.  GLUT runs the callbacks one at a time, so a key  *)
(* is handled between two frames.                                          *)
(***************************************************************************)
KeyOn == fpc # "rows" /\ ToggleOn
KeyOff == fpc # "rows" /\ ToggleOff

InitSession == NoScene /\ InitRad /\ IdleFrame /\ InitEditor /\ IdleCall
NextSession == KeyOn \/ KeyOff \/ CameraInput \/ FrameBegin \/ Row \/ FrameEnd
SpecSession == InitSession /\ [][NextSession]_vars

\* C27: when render mode has been switched on and no frame of the session
\* has been drawn yet, the sample counter is 0 and every slot of the
\* accumulation buffer is zero.
C27_SessionStartsFromNothing ==
    (g_renderMesh /\ g_ptSamples = 0) =>
        \A i \in DOMAIN g_accumBuffer : g_accumBuffer[i] = EmptyBag

(***************************************************************************)
(* The keys and the display callback: the mesh is edited, render mode is   *)
(* switched, and displayCallback draws the first frames of a session.      *)
(***************************************************************************)
MaxModeFrames == 2

KeyCreate == fpc # "rows" /\ EditCreate
KeyDeleteAll == fpc # "rows" /\ EditDeleteAll

\* if (g_pathTracingMode) updatePathTracingFrame();
DisplayBegin == g_pathTracingMode /\ g_ptSamples < MaxModeFrames /\ FrameBegin

InitMode == NoScene /\ InitRad /\ IdleFrame /\ InitEditor /\ IdleCall
NextMode == KeyOn \/ KeyOff \/ KeyCreate \/ KeyDeleteAll \/ DisplayBegin \/ Row \/ FrameEnd
SpecMode == InitMode /\ [][NextMode]_vars

\* C28: render mode is on exactly when the scene pointer is non-null, after
\* every key (a switch-on with no vertex leaves mode off and pointer null),
\* and a step that is not a key changes the sample counter, the accumulation
\* buffer or the pixel buffer only when the pointer is non-null.
C28_ModeFollowsPointer ==
    /\ [](g_pathTracingMode = g_renderMesh)
    /\ [][(/\ toggles' = toggles
           /\ \/ g_ptSamples' # g_ptSamples
              \/ g_accumBuffer' # g_accumBuffer
              \/ g_pixelBuffer' # g_pixelBuffer)
          => (g_renderMesh /\ g_renderMesh')]_vars

\* Render mode was switched on, a frame drawn, the mode switched off, the
\* mesh emptied of its vertices, and 'p' pressed again: the mode is off.
C28_Witness ==
    /\ toggles = 3
    /\ meshVertices = << >>
    /\ ~g_pathTracingMode /\ ~g_renderMesh
    /\ g_ptSamples >= 1 /\ fpc = "shown"

(***************************************************************************)
(* Steps 4 and 5 of the 'p' branch with the texture data, and the albedo   *)
(* lookup of radiance.  The editor hands over its faces, the texture cache *)
(* (a set of GL ids), the face -> GL id map and the face -> UV list map; a  *)
(* UV pair is held as its position in the editor's list.  The scene is the *)
(* three per-triangle vectors, as sequences: entry k + 1 is index k.       *)
(***************************************************************************)
\* The GL ids of the texture cache, and those a face may carry (one of them
\* of no cached texture).
GlIds == {1, 2}
FaceGlIds == {1, 2, 3}
UvLists == {<< >>, <<1, 2>>, <<1, 2, 3>>, <<1, 2, 3, 4>>, <<1, 2, 3, 4, 5>>}

\* glToPtMap[glID] = scene.textures.size() - 1, the cache walked in key order
GlToPtMap(cache) == [g \in cache |-> Cardinality({h \in cache : h < g})]

\* currentTexID = -1; if (faceTexMap.count(fIdx) && glToPtMap.count(...)) ...
CurrentTexID(fIdx, faceTexMap, glToPt) ==
    IF fIdx \in DOMAIN faceTexMap /\ faceTexMap[fIdx] \in DOMAIN glToPt
    THEN glToPt[faceTexMap[fIdx]] ELSE -1

\* if (currentTexID != -1 && faceUvMap.count(fIdx)) copy the face's UVs
OriginalUVs(fIdx, texID, faceUvMap) ==
    IF texID # -1 /\ fIdx \in DOMAIN faceUvMap THEN faceUvMap[fIdx] ELSE << >>

EmptyArrays == [faces |-> << >>, faceTextureID |-> << >>, faceUVs |-> << >>]

\* A push that adds no faceUVs entry for a triangle without UVs.
PushTriangleSkipsEmptyUVs(sc, tri, texID, uvs, need, pick) ==
    [faces |-> Append(sc.faces, tri),
     faceTextureID |-> Append(sc.faceTextureID, texID),
     faceUVs |-> IF texID # -1 /\ Len(uvs) >= need
                 THEN Append(sc.faceUVs, <<uvs[pick[1]], uvs[pick[2]], uvs[pick[3]]>>)
                 ELSE sc.faceUVs]

\* scene.faces.push_back(...); scene.faceTextureID.push_back(currentTexID);
\* if (currentTexID != -1 && originalUVs.size() >= need)
\*     scene.faceUVs.push_back({the three picked UVs});
\* else scene.faceUVs.push_back({});
PushTriangle(sc, tri, texID, uvs, need, pick) ==
    [faces |-> Append(sc.faces, tri),
     faceTextureID |-> Append(sc.faceTextureID, texID),
     faceUVs |-> Append(sc.faceUVs,
                        IF texID # -1 /\ Len(uvs) >= need
                        THEN <<uvs[pick[1]], uvs[pick[2]], uvs[pick[3]]>>
                        ELSE << >>)]

\* One iteration of the loop of step 5: a triangle, a quad (two triangles),
\* or a face of another size, for which nothing is pushed.
ConstructFace(sc, face, texID, uvs) ==
    IF Len(face) = 3
    THEN PushTriangle(sc, <<face[1], face[2], face[3]>>, texID, uvs, 3, <<1, 2, 3>>)
    ELSE IF Len(face) = 4
    THEN PushTriangle(PushTriangle(sc, <<face[1], face[2], face[3]>>, texID, uvs, 4, <<1, 2, 3>>),
                      <<face[1], face[3], face[4]>>, texID, uvs, 4, <<1, 3, 4>>)
    ELSE sc

RECURSIVE ConstructLoop(_, _, _, _, _)
ConstructLoop(m, fIdx, faceTexMap, faceUvMap, glToPt) ==
    IF fIdx = 0 THEN EmptyArrays
    ELSE LET texID == CurrentTexID(fIdx, faceTexMap, glToPt)
         IN  ConstructFace(ConstructLoop(m, fIdx - 1, faceTexMap, faceUvMap, glToPt),
                           m[fIdx], texID, OriginalUVs(fIdx, texID, faceUvMap))

\* radiance, id == 1: the albedo of the hit triangle.  An index past the end
\* of faceUVs is undefined behaviour: any albedo, or a fault.
Albedo(sc, textures, hitFaceIdx) ==
    IF hitFaceIdx >= 0 /\ hitFaceIdx < Len(sc.faceTextureID)
    THEN LET texID == sc.faceTextureID[hitFaceIdx + 1]
         IN  IF texID >= 0 /\ texID < textures
             THEN IF hitFaceIdx >= Len(sc.faceUVs) THEN {"grey", "texture", "fault"}
                  ELSE IF Len(sc.faceUVs[hitFaceIdx + 1]) >= 3 THEN {"texture"} ELSE {"grey"}
             ELSE {"grey"}
    ELSE {"grey"}

\* 'p' with some mesh, texture cache and per-face maps in the editor.
SceneConstructCall ==
    /\ call.pc = "idle"
    /\ \E n \in 0 .. MaxMeshFaces :
       \E m \in [1 .. n -> EditorFaceCatalogue] :
       \E cache \in SUBSET GlIds :
       \E texFaces \in SUBSET (1 .. n) : \E uvFaces \in SUBSET (1 .. n) :
       \E faceTexMap \in [texFaces -> FaceGlIds] :
       \E faceUvMap \in [uvFaces -> UvLists] :
           call' = [fn |-> "sceneConstruction", pc |-> "built",
                    mesh |-> m, faceTexMap |-> faceTexMap, faceUvMap |-> faceUvMap,
                    textures |-> Cardinality(cache),
                    scene |-> ConstructLoop(m, n, faceTexMap, faceUvMap, GlToPtMap(cache)),
                    hitFaceIdx |-> -1, albedo |-> "none"]
    /\ UNCHANGED <<bvhVars, radVars, frameVars, editorVars>>

\* A ray hits triangle hitFaceIdx of the scene and radiance looks up its
\* albedo.
AlbedoCall ==
    /\ call.pc = "built"
    /\ \E idx \in 0 .. Len(call.scene.faces) - 1 :
       \E a \in Albedo(call.scene, call.textures, idx) :
           call' = [call EXCEPT !.pc = "done", !.hitFaceIdx = idx, !.albedo = a]
    /\ UNCHANGED <<bvhVars, radVars, frameVars, editorVars>>

InitArrays == NoScene /\ InitRad /\ IdleFrame /\ IdleEditor /\ IdleCall
NextArrays == SceneConstructCall \/ AlbedoCall \/ CallReturn
SpecArrays == InitArrays /\ [][NextArrays]_vars

\* C29: after a scene construction faces, faceTextureID and faceUVs have the
\* same length, every face has 3 vertex indices and every faceUVs entry has
\* 0 or 3 UV pairs; the albedo lookup of a hit triangle stays inside faceUVs
\* (it never faults), and the albedo is the texture's exactly when the
\* triangle has a texture id and 3 UVs, the default grey otherwise.
C29_ArraysAligned ==
    call.fn = "sceneConstruction" =>
        LET sc == call.scene
        IN  /\ Len(sc.faceTextureID) = Len(sc.faces)
            /\ Len(sc.faceUVs) = Len(sc.faces)
            /\ \A k \in DOMAIN sc.faces : Len(sc.faces[k]) = 3
            /\ \A k \in DOMAIN sc.faceUVs : Len(sc.faceUVs[k]) \in {0, 3}
            /\ call.pc = "done" =>
                   /\ call.albedo # "fault"
                   /\ call.hitFaceIdx + 1 \in DOMAIN sc.faceUVs
                   /\ (call.albedo = "texture") =
                          (/\ sc.faceTextureID[call.hitFaceIdx + 1] # -1
                           /\ Len(sc.faceUVs[call.hitFaceIdx + 1]) = 3)
                   /\ (call.albedo = "grey") = ~(call.albedo = "texture")

\* A triangle that has a texture but only two UVs in the editor was hit and
\* shaded grey.
C29_Witness ==
    /\ call.fn = "sceneConstruction" /\ call.pc = "done"
    /\ call.scene.faceTextureID[call.hitFaceIdx + 1] >= 0
    /\ call.scene.faceUVs[call.hitFaceIdx + 1] = << >>
    /\ Len(call.scene.faces) >= 2
    /\ \E k \in DOMAIN call.scene.faceUVs : Len(call.scene.faceUVs[k]) = 3
    /\ call.albedo = "grey"

(***************************************************************************)
(* The light in next-event estimation.  radiance samples a point of the    *)
(* light, lightPos + randomUnitVector * lightRadius, and sends a shadow    *)
(* ray to it from the shading point x; getIntersection tests the ray       *)
(* against its own sphere.  Lengths of radiance are held in units of 0.01  *)
(* so that lightRadius is an integer; a unit vector is dn / dd and x lies  *)
(* on the line from the light's centre along it, which keeps the square    *)
(* roots exact.                                                            *)
(***************************************************************************)
\* radiance: Vec3 lightPos(0.0, 0.6, 0.0), in units of 0.01.
lightPos == <<0, 60, 0>>
\* radiance: double lightRadius = 0.04, in units of 0.01.
lightRadius == 4

\* The values of randomUnitVector of the model: the axes and the
\* permutations of (1, 2, 2) / 3, with all signs.
UnitVectors ==
    {[dn |-> d, dd |-> 1] : d \in {<<1, 0, 0>>, <<-1, 0, 0>>, <<0, 1, 0>>, <<0, -1, 0>>,
                                    <<0, 0, 1>>, <<0, 0, -1>>}}
    \cup {[dn |-> <<a * p[1], b * p[2], c * p[3]>>, dd |-> 3] :
              a \in {-1, 1}, b \in {-1, 1}, c \in {-1, 1},
              p \in {<<1, 2, 2>>, <<2, 1, 2>>, <<2, 2, 1>>}}

\* The shading points: j steps of 0.1 * dd from the light's centre along u.
ShadingSteps == 2 .. 6
ShadingPoint(u, j) == <<j * u.dn[1], LightY + j * u.dn[2], j * u.dn[3]>>

Root(n) == CHOOSE k \in 0 .. 600 : k * k = n

\* lightSample = lightPos + randomUnitVector(seed) * lightRadius;
\* toLight = lightSample - x, in units of 0.01 / dd.
ToLight(x, u) ==
    <<u.dd * lightPos[1] + u.dn[1] * lightRadius - 10 * u.dd * x[1],
      u.dd * lightPos[2] + u.dn[2] * lightRadius - 10 * u.dd * x[2],
      u.dd * lightPos[3] + u.dn[3] * lightRadius - 10 * u.dd * x[3]>>

\* distSq = toLight.dot(toLight); dist = sqrt(distSq), in units of 0.01 / dd.
Dist(x, u) == Root(Dot(ToLight(x, u), ToLight(x, u)))

\* L_dir = toLight * (1.0 / dist); Ray shadowRay(x + nl * 1e-4, L_dir), the
\* offset of 1e-4 being below the unit of the model.
ShadowRay(x, u) ==
    LET tl == ToLight(x, u)
        dist == Dist(x, u)
    IN  [o |-> x, dd |-> u.dd,
         dn |-> <<(tl[1] * u.dd) \div dist, (tl[2] * u.dd) \div dist, (tl[3] * u.dd) \div dist>>]

\* if (getIntersection(shadowRay, t_s, id_s, ...))
\*     if (id_s == 3 && t_s < dist + 0.1) visible = true;
Visible(hit, dist, dd) == hit.id = 3 /\ QLess(hit.t, QFrac(dist + 10 * dd, 10 * dd))

\* One shadow sample from shading point x, no mesh and no floor in the way.
LightSampleCall ==
    /\ call.pc = "idle"
    /\ \E u \in UnitVectors : \E j \in ShadingSteps :
           LET x == ShadingPoint(u, j)
               hit == LightTest(ShadowRay(x, u), NoHit)
           IN  call' = [fn |-> "lightSample", pc |-> "done", x |-> x, u |-> u,
                        dist |-> QFrac(Dist(x, u), 10 * u.dd), hit |-> hit,
                        visible |-> Visible(hit, Dist(x, u), u.dd)]
    /\ UNCHANGED <<bvhVars, radVars, frameVars, editorVars>>

InitLight == NoScene /\ InitRad /\ IdleFrame /\ IdleEditor /\ IdleCall
NextLight == LightSampleCall \/ CallReturn
SpecLight == InitLight /\ [][NextLight]_vars

\* C30: the sphere getIntersection tests and the sphere radiance samples
\* have the same centre and the same radius, so the shadow ray sent to a
\* sampled point meets the light at that point: t_s = dist.
C30_OneLightSphere ==
    call.fn = "lightSample" =>
        /\ lightPos = <<0, 10 * LightY, 0>>
        /\ lightRadius * lightRadius = 100 * LightR2
        /\ call.hit.id = 3
        /\ QEq(call.hit.t, call.dist)

====
